---- MODULE Spec2Model ----
(***************************************************************************)
(* Planning-poker session replication (WebRTC star topology).              *)
(*                                                                         *)
(* One facilitator tab (F) holds the authoritative session and acts as the *)
(* hub; participant tabs connect to the address 'pps-' + code, announce    *)
(* themselves and mirror every state_sync.  The model follows              *)
(* src/js/session.js (life cycle), src/js/webrtc.js (transport handlers)   *)
(* and src/js/storage.js (persistence).                                    *)
(*                                                                         *)
(* A DataConnection is modelled as two FIFO queues (down: hub to           *)
(* participant, up: participant to hub) and one state per end.  A close of *)
(* one end is delivered to the other end as the last element of the queue  *)
(* (the CLOSE marker), after the data sent before it.                      *)
(* The timestamp createdAt and the UI notifications are not modelled.      *)
(***************************************************************************)
EXTENDS Integers, Sequences, FiniteSets, TLC

VARIABLES
  state,        \* per tab: the singleton of session.js (myId, myName, myRole, sessionId, session)
  pc,           \* per tab: where the tab is (screen shown / pending async operation)
  result,       \* per tab: value returned by the last createSession / joinSession / restoreSession
  me,           \* per tab: sessionStorage identity record ('pps_me')
  ls,           \* localStorage of the facilitator's browser: code -> saved session
  peer,         \* facilitator: the _peer singleton of webrtc.js (bound address and its state)
  attempt,      \* facilitator: locals of createSession (i of the last call is kept)
  creates,      \* facilitator: number of sessions created so far (source of fresh ids)
  connMap,      \* facilitator: _connMap, in insertion order
  conns,        \* every DataConnection: state of both ends and the two queues
  hostConn,     \* per participant tab: _hostConn (0 = null)
  joinResolve,  \* per participant tab: _joinResolve is armed
  joinReject,   \* per participant tab: _joinReject is armed
  tabPeer,      \* per participant tab: _peer, named by the connection it dials (0 = null)
  nconn,        \* number of participant Peer objects created so far (source of fresh ids)
  reloads       \* number of reloads of the facilitator's page so far

vars == <<state, pc, result, me, ls, peer, attempt, creates, connMap, conns,
          hostConn, joinResolve, joinReject, tabPeer, nconn, reloads>>

(***************************************************************************)
(* Bounds of the model.                                                    *)
(***************************************************************************)
NumTabs == 2
MaxConns == 2
MaxQueue == 1
MaxCreates == 1
MaxReloads == 1

(***************************************************************************)
(* Program constants.                                                      *)
(***************************************************************************)
MAX_PARTICIPANTS == 8
MAX_CREATE_ATTEMPTS == 5

STATUS == [WAITING |-> "waiting", VOTING |-> "voting", REVEALED |-> "revealed"]
ROLE == [FACILITATOR |-> "facilitator", PARTICIPANT |-> "participant"]

Null == [null |-> TRUE]
NoVote == -1
Undefined == "undefined"

F == 0
Tabs == 1..NumTabs
AllTabs == 0..NumTabs
ConnIds == 1..MaxConns

Codes == {"A3F7", "K2M9"}
Names == {"", "Al"}
Items == {"S1"}
VoteValues == {3}

\* _genParticipantId: a fresh identifier at every call
genParticipantId(k) == 10 + k

NoCode == ""

InitState == [myId |-> 0, myName |-> "", myRole |-> "", sessionId |-> NoCode, session |-> Null]

InitConn == [owner |-> 0, pst |-> "none", hst |-> "none", target |-> "", down |-> <<>>,
             up |-> <<>>, herr |-> FALSE]

CloseMark == [type |-> "CLOSE"]

(***************************************************************************)
(* Roster helpers.                                                         *)
(***************************************************************************)
HasId(ps, id) == \E i \in 1..Len(ps) : ps[i].id = id

NonFac(ps) == SelectSeq(ps, LAMBDA p : ~p.isFacilitator)

ResetVotesBroken(ps) == ps

ResetVotes(ps) == [i \in 1..Len(ps) |-> [ps[i] EXCEPT !.vote = NoVote]]

SetVoteAll(ps, id, v) == [i \in 1..Len(ps) |-> [ps[i] EXCEPT !.vote = v]]

SetVote(ps, id, v) == [i \in 1..Len(ps) |-> IF ps[i].id = id THEN [ps[i] EXCEPT !.vote = v] ELSE ps[i]]

FilterOut(ps, id) == SelectSeq(ps, LAMBDA p : p.id # id)

NewParticipantAsFacilitator(id, name) ==
  [id |-> id, name |-> name, vote |-> NoVote, isFacilitator |-> TRUE]

NewParticipant(id, name) == [id |-> id, name |-> name, vote |-> NoVote, isFacilitator |-> FALSE]

(***************************************************************************)
(* storage.js                                                              *)
(***************************************************************************)
saveSession(store, session) == [store EXCEPT ![session.id] = session]

loadSession(store, sessionId) == store[sessionId]

deleteSession(store, sessionId) == [store EXCEPT ![sessionId] = Null]

(***************************************************************************)
(* _connMap: a Map keyed by conn.peer, kept in insertion order.            *)
(***************************************************************************)
MapHas(m, k) == \E i \in 1..Len(m) : m[i].peer = k

MapGet(m, k) == (CHOOSE i \in 1..Len(m) : m[i].peer = k)

MapSet(m, k, v) ==
  IF MapHas(m, k)
  THEN [i \in 1..Len(m) |-> IF m[i].peer = k THEN [peer |-> k, appId |-> v] ELSE m[i]]
  ELSE Append(m, [peer |-> k, appId |-> v])

MapDelete(m, k) == SelectSeq(m, LAMBDA e : e.peer # k)

(***************************************************************************)
(* Hub side of webrtc.js.  The operators below transform the record        *)
(*   h = [session, ls, connMap, conns]                                     *)
(* of everything a hub handler can touch.                                  *)
(***************************************************************************)
sendToFront(cs, c, data) ==
  IF cs[c].pst = "closed" THEN cs ELSE [cs EXCEPT ![c].down = <<data>> \o @]

\* _sendTo towards a participant; data sent to an end that is gone is lost
sendTo(cs, c, data) ==
  IF cs[c].pst = "closed" THEN cs ELSE [cs EXCEPT ![c].down = Append(@, data)]

\* _sendTo towards the hub
sendUp(cs, c, data) ==
  IF cs[c].hst = "closed" THEN cs ELSE [cs EXCEPT ![c].up = Append(@, data)]

StateSync(session) == [type |-> "state_sync", session |-> session]

SendFirstOnly(cs, entries, msg) ==
  IF entries = <<>> THEN cs
  ELSE LET c == Head(entries).peer
       IN IF cs[c].hst = "open" THEN sendTo(cs, c, msg) ELSE cs

RECURSIVE SendAll(_, _, _)
SendAll(cs, entries, msg) ==
  IF entries = <<>> THEN cs
  ELSE LET c == Head(entries).peer
       IN SendAll(IF cs[c].hst = "open" THEN sendTo(cs, c, msg) ELSE cs, Tail(entries), msg)

\* the forEach of broadcastState when conn.send throws on the channel bad:
\* _sendTo catches the exception and logs it, and the loop goes on
RECURSIVE SendAllFailing(_, _, _, _)
SendAllFailing(cs, entries, msg, bad) ==
  IF entries = <<>> THEN cs
  ELSE LET c == Head(entries).peer
       IN SendAllFailing(IF cs[c].hst = "open" /\ c # bad THEN sendTo(cs, c, msg) ELSE cs,
                         Tail(entries), msg, bad)

broadcastState(h) ==
  IF h.session = Null THEN h
  ELSE [h EXCEPT !.conns = SendAll(h.conns, h.connMap, StateSync(h.session))]

removeParticipantUnsaved(h, appId) ==
  IF h.session = Null THEN h
  ELSE LET after == FilterOut(h.session.participants, appId)
           s2 == [h.session EXCEPT !.participants = after]
       IN IF Len(after) < Len(h.session.participants)
          THEN broadcastState([h EXCEPT !.session = s2])
          ELSE [h EXCEPT !.session = s2]

removeParticipant(h, appId) ==
  IF h.session = Null THEN h
  ELSE LET after == FilterOut(h.session.participants, appId)
           s2 == [h.session EXCEPT !.participants = after]
       IN IF Len(after) < Len(h.session.participants)
          THEN broadcastState([h EXCEPT !.session = s2, !.ls = saveSession(h.ls, s2)])
          ELSE [h EXCEPT !.session = s2]

onParticipantDisconnectNoop(h, c) == h

onParticipantDisconnect(h, c) ==
  IF MapHas(h.connMap, c)
  THEN LET h2 == removeParticipant(h, h.connMap[MapGet(h.connMap, c)].appId)
       IN [h2 EXCEPT !.connMap = MapDelete(h2.connMap, c)]
  ELSE h

hubCloseSilent(h, c) == h

\* conn.close() called by the hub: the connection stops being open, the
\* remote end will see a close, and the local 'close' handler runs at once
hubClose(h, c) ==
  IF h.conns[c].hst # "open" THEN h
  ELSE LET cs2 == [sendTo(h.conns, c, CloseMark) EXCEPT ![c].hst = "closed", ![c].up = <<>>]
       IN onParticipantDisconnect([h EXCEPT !.conns = cs2], c)

isFullOffByOne(ps) == Len(NonFac(ps)) > MAX_PARTICIPANTS

isFull(ps) == Len(NonFac(ps)) >= MAX_PARTICIPANTS

existsNever(ps, pid) == FALSE

exists(ps, pid) == HasId(ps, pid)

ErrorMsg(code) == [type |-> "error", code |-> code]

\* case 'participant_join' of _onParticipantMessage
onParticipantJoin(h, c, msg) ==
  LET h1 == [h EXCEPT !.connMap = MapSet(h.connMap, c, msg.pid)]
      ps == h1.session.participants
  IN IF ~exists(ps, msg.pid)
     THEN IF isFull(ps)
          THEN hubClose([h1 EXCEPT !.conns = sendTo(h1.conns, c, ErrorMsg("SESSION_FULL"))], c)
          ELSE LET s2 == [h1.session EXCEPT
                            !.participants = Append(ps, NewParticipant(msg.pid, msg.name))]
               IN broadcastState([h1 EXCEPT !.session = s2, !.ls = saveSession(h1.ls, s2)])
     ELSE broadcastState([h1 EXCEPT !.ls = saveSession(h1.ls, h1.session)])

votingOpenAlways(session) == TRUE

onVoteCastEager(h, msg) ==
  IF h.session.status # STATUS.VOTING THEN h
  ELSE LET s2 == [h.session EXCEPT !.participants = SetVote(@, msg.pid, msg.vote)]
       IN broadcastState([h EXCEPT !.session = s2, !.ls = saveSession(h.ls, s2)])

votingOpen(session) == session.status = STATUS.VOTING

\* case 'vote_cast' of _onParticipantMessage
onVoteCast(h, msg) ==
  IF ~votingOpen(h.session) THEN h
  ELSE IF HasId(h.session.participants, msg.pid)
       THEN LET s2 == [h.session EXCEPT !.participants = SetVote(@, msg.pid, msg.vote)]
            IN broadcastState([h EXCEPT !.session = s2, !.ls = saveSession(h.ls, s2)])
       ELSE h

\* case 'participant_leave' of _onParticipantMessage
onParticipantLeave(h, c, msg) ==
  LET h2 == removeParticipant(h, msg.pid)
  IN [h2 EXCEPT !.connMap = MapDelete(h2.connMap, c)]

onParticipantMessageUnguarded(h, c, msg) ==
  IF h.session = Null
  THEN IF msg.type = "participant_join"
       THEN [h EXCEPT !.connMap = MapSet(h.connMap, c, msg.pid)]
       ELSE h
  ELSE CASE msg.type = "participant_join"  -> onParticipantJoin(h, c, msg)
         [] msg.type = "vote_cast"         -> onVoteCast(h, msg)
         [] msg.type = "participant_leave" -> onParticipantLeave(h, c, msg)
         [] OTHER                          -> h

onParticipantMessage(h, c, msg) ==
  IF h.session = Null THEN h
  ELSE CASE msg.type = "participant_join"  -> onParticipantJoin(h, c, msg)
         [] msg.type = "vote_cast"         -> onVoteCast(h, msg)
         [] msg.type = "participant_leave" -> onParticipantLeave(h, c, msg)
         [] OTHER                          -> h

RECURSIVE CloseAll(_, _)
CloseAll(h, entries) ==
  IF entries = <<>> THEN h
  ELSE LET c == Head(entries).peer
       IN CloseAll(IF h.conns[c].hst = "open"
                   THEN hubClose([h EXCEPT !.conns = sendTo(h.conns, c, [type |-> "session_closed"])], c)
                   ELSE h,
                   Tail(entries))

broadcastCloseQuiet(h) == [h EXCEPT !.connMap = <<>>]

broadcastClose(h) == [CloseAll(h, h.connMap) EXCEPT !.connMap = <<>>]

\* _peer.destroy() of the hub's Peer: every connection of the Peer is closed
RECURSIVE DestroyConns(_, _)
DestroyConns(h, cset) ==
  IF cset = {} THEN h
  ELSE LET c == CHOOSE x \in cset : TRUE
           h2 == IF h.conns[c].hst = "open" THEN hubClose(h, c)
                 ELSE IF h.conns[c].hst = "pending"
                      THEN [h EXCEPT !.conns = [sendTo(h.conns, c, CloseMark) EXCEPT
                                                  ![c].hst = "closed", ![c].up = <<>>]]
                      ELSE h
       IN DestroyConns(h2, cset \ {c})

(***************************************************************************)
(* Facilitator actions of session.js, as transformers of h.                *)
(***************************************************************************)
doUpdateItemReset(h, item) ==
  IF h.session = Null THEN h
  ELSE LET s2 == [h.session EXCEPT !.currentItem = item, !.participants = ResetVotes(@)]
       IN broadcastState([h EXCEPT !.session = s2, !.ls = saveSession(h.ls, s2)])

doUpdateItem(h, item) ==
  IF h.session = Null THEN h
  ELSE LET s2 == [h.session EXCEPT !.currentItem = item]
       IN broadcastState([h EXCEPT !.session = s2, !.ls = saveSession(h.ls, s2)])

doLaunchVoteKeepItem(h, item) ==
  IF h.session = Null THEN h
  ELSE LET s2 == [h.session EXCEPT !.status = STATUS.VOTING, !.participants = ResetVotes(@)]
       IN broadcastState([h EXCEPT !.session = s2, !.ls = saveSession(h.ls, s2)])

doLaunchVote(h, item) ==
  IF h.session = Null THEN h
  ELSE LET s2 == [h.session EXCEPT
                    !.currentItem = IF item # Undefined THEN item ELSE @,
                    !.status = STATUS.VOTING,
                    !.participants = ResetVotes(@)]
       IN broadcastState([h EXCEPT !.session = s2, !.ls = saveSession(h.ls, s2)])

doRevealVotesReset(h) ==
  IF h.session = Null THEN h
  ELSE LET s2 == [h.session EXCEPT !.status = STATUS.REVEALED, !.participants = ResetVotes(@)]
       IN broadcastState([h EXCEPT !.session = s2, !.ls = saveSession(h.ls, s2)])

doRevealVotes(h) ==
  IF h.session = Null THEN h
  ELSE LET s2 == [h.session EXCEPT !.status = STATUS.REVEALED]
       IN broadcastState([h EXCEPT !.session = s2, !.ls = saveSession(h.ls, s2)])

\* revealVotes when the send on the channel bad throws
doRevealVotesSendFails(h, bad) ==
  IF h.session = Null THEN h
  ELSE LET s2 == [h.session EXCEPT !.status = STATUS.REVEALED]
       IN [h EXCEPT !.session = s2, !.ls = saveSession(h.ls, s2),
                    !.conns = SendAllFailing(h.conns, h.connMap, StateSync(s2), bad)]

doNewRoundKeepVotes(h) ==
  IF h.session = Null THEN h
  ELSE LET s2 == [h.session EXCEPT !.status = STATUS.WAITING]
       IN broadcastState([h EXCEPT !.session = s2, !.ls = saveSession(h.ls, s2)])

doNewRound(h) ==
  IF h.session = Null THEN h
  ELSE LET s2 == [h.session EXCEPT !.status = STATUS.WAITING, !.participants = ResetVotes(@)]
       IN broadcastState([h EXCEPT !.session = s2, !.ls = saveSession(h.ls, s2)])

\* closeSession, on what the hub holds
doCloseSession(h, id) ==
  IF h.session = Null THEN h
  ELSE LET h1 == broadcastClose(h)
           h2 == DestroyConns([h1 EXCEPT !.connMap = <<>>], ConnIds)
       IN [h2 EXCEPT !.ls = deleteSession(h2.ls, id), !.session = Null]

(***************************************************************************)
(* State machine.                                                          *)
(***************************************************************************)
perTab == <<pc, result, me>>
hubVars == <<ls, connMap>>
facCtl == <<peer, attempt, creates, reloads>>
tabCtl == <<hostConn, joinResolve, joinReject, tabPeer>>

Hub == [session |-> state[F].session, ls |-> ls, connMap |-> connMap, conns |-> conns]

ApplyHub(h) ==
  /\ state' = [state EXCEPT ![F].session = h.session]
  /\ ls' = h.ls
  /\ connMap' = h.connMap
  /\ conns' = h.conns

\* every queue towards a participant has room (bound of the model)
Room == \A c \in ConnIds : Len(conns[c].down) < MaxQueue

NoAttempt == [i |-> 0, name |-> "", item |-> "", sessionId |-> NoCode]

Init ==
  /\ state = [t \in AllTabs |-> InitState]
  /\ pc = [t \in AllTabs |-> "home"]
  /\ result = [t \in AllTabs |-> "none"]
  /\ me = [t \in AllTabs |-> Null]
  /\ ls = [c \in Codes |-> Null]
  /\ peer = [code |-> NoCode, st |-> "none"]
  /\ attempt = NoAttempt
  /\ creates = 0
  /\ reloads = 0
  /\ connMap = <<>>
  /\ conns = [c \in ConnIds |-> InitConn]
  /\ hostConn = [t \in Tabs |-> 0]
  /\ joinResolve = [t \in Tabs |-> FALSE]
  /\ joinReject = [t \in Tabs |-> FALSE]
  /\ tabPeer = [t \in Tabs |-> 0]
  /\ nconn = 0

updateItem(item) ==
  /\ pc[F] = "room" /\ Room
  /\ ApplyHub(doUpdateItem(Hub, item))
  /\ UNCHANGED <<perTab, facCtl, tabCtl, nconn>>

launchVote(item) ==
  /\ pc[F] = "room" /\ Room
  /\ ApplyHub(doLaunchVote(Hub, item))
  /\ UNCHANGED <<perTab, facCtl, tabCtl, nconn>>

revealVotesSendFails(bad) ==
  /\ pc[F] = "room" /\ Room
  /\ MapHas(connMap, bad)
  /\ conns[bad].hst = "open"
  /\ ApplyHub(doRevealVotesSendFails(Hub, bad))
  /\ UNCHANGED <<perTab, facCtl, tabCtl, nconn>>

revealVotes ==
  /\ pc[F] = "room" /\ Room
  /\ ApplyHub(doRevealVotes(Hub))
  /\ UNCHANGED <<perTab, facCtl, tabCtl, nconn>>

newRound ==
  /\ pc[F] = "room" /\ Room
  /\ ApplyHub(doNewRound(Hub))
  /\ UNCHANGED <<perTab, facCtl, tabCtl, nconn>>

(***************************************************************************)
(* createSession                                                           *)
(***************************************************************************)
\* _genSessionId gives any code of the alphabet; Peer(PEER_PREFIX + code) is
\* then created and the signalling server answers later
NewPeer(code) == [code |-> code, st |-> "connecting"]

createSessionStart(name, item) ==
  /\ pc[F] = "home"
  /\ creates < MaxCreates
  /\ IF name = ""
     THEN /\ result' = [result EXCEPT ![F] = "false"]
          /\ UNCHANGED <<state, pc, me, peer, attempt>>
     ELSE \E code \in Codes :
          /\ attempt' = [i |-> 0, name |-> name, item |-> item, sessionId |-> code]
          /\ peer' = NewPeer(code)
          /\ pc' = [pc EXCEPT ![F] = "creating"]
          /\ result' = [result EXCEPT ![F] = "pending"]
          /\ UNCHANGED <<state, me>>
  /\ UNCHANGED <<hubVars, conns, creates, reloads, tabCtl, nconn>>

FacId(n) == 100 + n

NewSession(sessionId, myId, name, item) ==
  [id              |-> sessionId,
   facilitatorId   |-> myId,
   facilitatorName |-> name,
   status          |-> STATUS.WAITING,
   currentItem     |-> item,
   participants    |-> <<[id |-> myId, name |-> name, vote |-> NoVote, isFacilitator |-> TRUE]>>]

MeRecord(st, sessionId) ==
  [myId |-> st.myId, myName |-> st.myName, myRole |-> st.myRole, sessionId |-> sessionId]

\* createFacilitatorPeer resolved: lines 120-139 of createSession
createSessionOpen ==
  /\ pc[F] = "creating"
  /\ peer.st = "connecting"
  /\ LET myId == FacId(creates + 1)
         session == NewSession(attempt.sessionId, myId, attempt.name, attempt.item)
         st == [myId |-> myId, myName |-> attempt.name, myRole |-> ROLE.FACILITATOR,
                sessionId |-> attempt.sessionId, session |-> session]
     IN /\ state' = [state EXCEPT ![F] = st]
        /\ ls' = saveSession(ls, session)
        /\ me' = [me EXCEPT ![F] = MeRecord(st, attempt.sessionId)]
  /\ peer' = [peer EXCEPT !.st = "open"]
  /\ creates' = creates + 1
  /\ attempt' = [NoAttempt EXCEPT !.i = attempt.i]
  /\ pc' = [pc EXCEPT ![F] = "room"]
  /\ result' = [result EXCEPT ![F] = "true"]
  /\ UNCHANGED <<connMap, conns, reloads, tabCtl, nconn>>

retryAlways(code, i) == code = "ID_TAKEN"

retry(code, i) == code = "ID_TAKEN" /\ i < MAX_CREATE_ATTEMPTS - 1

\* createFacilitatorPeer rejected: the catch block of the loop
createSessionError(code) ==
  /\ pc[F] = "creating"
  /\ peer.st = "connecting"
  /\ IF retry(code, attempt.i)
     THEN \E next \in Codes :
          /\ attempt' = [attempt EXCEPT !.i = @ + 1, !.sessionId = next]
          /\ peer' = NewPeer(next)
          /\ UNCHANGED <<pc, result>>
     ELSE /\ peer' = [peer EXCEPT !.st = "error"]
          /\ pc' = [pc EXCEPT ![F] = "home"]
          /\ result' = [result EXCEPT ![F] = "false"]
          /\ attempt' = [NoAttempt EXCEPT !.i = attempt.i]
  /\ UNCHANGED <<state, me, hubVars, conns, creates, reloads, tabCtl, nconn>>

(***************************************************************************)
(* closeSession                                                            *)
(***************************************************************************)
closeSession ==
  /\ pc[F] = "room" /\ Room
  /\ state[F].session # Null
  /\ LET id == state[F].sessionId
         h1 == broadcastClose(Hub)
         h2 == DestroyConns([h1 EXCEPT !.connMap = <<>>], ConnIds)
     IN /\ conns' = h2.conns
        /\ connMap' = h2.connMap
        /\ ls' = deleteSession(h2.ls, id)
  /\ peer' = [peer EXCEPT !.st = "destroyed"]
  /\ me' = [me EXCEPT ![F] = Null]
  /\ state' = [state EXCEPT ![F].session = Null, ![F].sessionId = NoCode]
  /\ pc' = [pc EXCEPT ![F] = "home"]
  /\ UNCHANGED <<result, attempt, creates, reloads, tabCtl, nconn>>

(***************************************************************************)
(* Reload of the facilitator's page and restoreSession (facilitator)       *)
(***************************************************************************)
\* the page goes away: its connections die, the participants will see a close
DropHubEnd(cn) ==
  IF cn.hst \in {"pending", "open"}
  THEN [cn EXCEPT !.hst = "closed", !.up = <<>>,
                  !.down = IF cn.pst = "closed" THEN @ ELSE Append(@, CloseMark)]
  ELSE cn

reloadFacilitator ==
  /\ pc[F] # "boot"
  /\ me[F] # Null
  /\ reloads < MaxReloads
  /\ reloads' = reloads + 1
  /\ conns' = [c \in ConnIds |-> DropHubEnd(conns[c])]
  /\ connMap' = <<>>
  /\ state' = [state EXCEPT ![F] = InitState]
  /\ peer' = [peer EXCEPT !.st = "gone"]
  /\ pc' = [pc EXCEPT ![F] = "boot"]
  /\ result' = [result EXCEPT ![F] = "none"]
  /\ UNCHANGED <<me, ls, attempt, creates, tabCtl, nconn>>

\* init() of app.js and the synchronous head of restoreSession
restoreSessionStart ==
  /\ pc[F] = "boot"
  /\ me[F] # Null
  /\ LET m == me[F]
         saved == loadSession(ls, m.sessionId)
     IN /\ state' = [state EXCEPT ![F] = [myId |-> m.myId, myName |-> m.myName,
                                          myRole |-> m.myRole, sessionId |-> m.sessionId,
                                          session |-> saved]]
        /\ IF saved = Null
           THEN /\ result' = [result EXCEPT ![F] = "false"]
                /\ me' = [me EXCEPT ![F] = Null]
                /\ pc' = [pc EXCEPT ![F] = "home"]
                /\ UNCHANGED peer
           ELSE /\ result' = [result EXCEPT ![F] = "pending"]
                /\ peer' = NewPeer(m.sessionId)
                /\ pc' = [pc EXCEPT ![F] = "restoring"]
                /\ UNCHANGED me
  /\ UNCHANGED <<hubVars, conns, attempt, creates, reloads, tabCtl, nconn>>

restoreSessionOpen ==
  /\ pc[F] \in {"restoring", "restoring2"}
  /\ peer.st = "connecting"
  /\ peer' = [peer EXCEPT !.st = "open"]
  /\ pc' = [pc EXCEPT ![F] = "room"]
  /\ result' = [result EXCEPT ![F] = "true"]
  /\ UNCHANGED <<state, me, hubVars, conns, attempt, creates, reloads, tabCtl, nconn>>

restoreRetryAlways(code, stage) == code = "ID_TAKEN"

\* only the first createFacilitatorPeer of restoreSession is retried
restoreRetry(code, stage) == stage = "restoring" /\ code = "ID_TAKEN"

restoreSessionError(code) ==
  /\ pc[F] \in {"restoring", "restoring2"}
  /\ peer.st = "connecting"
  /\ peer' = [peer EXCEPT !.st = "error"]
  /\ IF restoreRetry(code, pc[F])
     THEN /\ pc' = [pc EXCEPT ![F] = "backoff"]
          /\ UNCHANGED <<result, me>>
     ELSE /\ pc' = [pc EXCEPT ![F] = "home"]
          /\ result' = [result EXCEPT ![F] = "false"]
          /\ me' = [me EXCEPT ![F] = Null]
  /\ UNCHANGED <<state, hubVars, conns, attempt, creates, reloads, tabCtl, nconn>>

\* the 3 s timer of restoreSession fires: second createFacilitatorPeer
restoreSessionRetry ==
  /\ pc[F] = "backoff"
  /\ peer' = NewPeer(state[F].sessionId)
  /\ pc' = [pc EXCEPT ![F] = "restoring2"]
  /\ UNCHANGED <<state, result, me, hubVars, conns, attempt, creates, reloads, tabCtl, nconn>>

\* the browser's localStorage is emptied (by the user, or by the browser)
storageCleared ==
  /\ \E c \in Codes : ls[c] # Null
  /\ ls' = [c \in Codes |-> Null]
  /\ UNCHANGED <<state, perTab, connMap, conns, facCtl, tabCtl, nconn>>

(***************************************************************************)
(* Participant side.  The operators below transform the record             *)
(*   w = [st, pc, result, me, hostConn, peer, jres, jrej, conns]           *)
(* of everything a handler running in a participant tab can touch.         *)
(***************************************************************************)
Tab(t) == [st |-> state[t], pc |-> pc[t], result |-> result[t], me |-> me[t],
           hostConn |-> hostConn[t], peer |-> tabPeer[t],
           jres |-> joinResolve[t], jrej |-> joinReject[t], conns |-> conns]

ApplyTab(t, w) ==
  /\ state' = [state EXCEPT ![t] = w.st]
  /\ pc' = [pc EXCEPT ![t] = w.pc]
  /\ result' = [result EXCEPT ![t] = w.result]
  /\ me' = [me EXCEPT ![t] = w.me]
  /\ hostConn' = [hostConn EXCEPT ![t] = w.hostConn]
  /\ tabPeer' = [tabPeer EXCEPT ![t] = w.peer]
  /\ joinResolve' = [joinResolve EXCEPT ![t] = w.jres]
  /\ joinReject' = [joinReject EXCEPT ![t] = w.jrej]
  /\ conns' = w.conns

onSessionClosedIgnored(w) == w

\* state.onSessionClosed of app.js: back to the home screen
onSessionClosed(w) == [w EXCEPT !.pc = IF @ = "room" THEN "home" ELSE @]

\* the participant's end goes away; the hub will see a close after the data
DropPartEnd(cn) ==
  IF cn.pst \in {"dialing", "linking", "open"}
  THEN [cn EXCEPT !.pst = "closed", !.down = <<>>,
                  !.up = IF cn.hst \in {"pending", "open"} THEN Append(@, CloseMark) ELSE @]
  ELSE cn

\* _hostConn.close(): an open connection emits 'close' locally at once
partClose(w, c) ==
  LET w1 == [w EXCEPT !.conns[c] = DropPartEnd(@)]
  IN IF w.conns[c].pst = "open" THEN onSessionClosed(w1) ELSE w1

disconnectWebRTC(w) ==
  LET w1 == IF w.hostConn # 0 THEN partClose(w, w.hostConn) ELSE w
      w2 == IF w1.peer # 0 THEN [w1 EXCEPT !.conns[w1.peer] = DropPartEnd(@)] ELSE w1
  IN [w2 EXCEPT !.hostConn = 0, !.peer = 0, !.jres = FALSE, !.jrej = FALSE]

JoinErrorGeneric(code) == "PEER_ERROR"

JoinError(code) ==
  IF code = "SESSION_NOT_FOUND" THEN "SESSION_NOT_FOUND"
  ELSE IF code = "SESSION_FULL" THEN "SESSION_FULL"
  ELSE "PEER_ERROR"

\* the promise of joinAsParticipant is rejected with {code}: the catch block of
\* joinSession, or of restoreSession followed by clearMe of init()
rejected(w, code) ==
  IF w.pc = "joining"
  THEN [disconnectWebRTC(w) EXCEPT !.result = JoinError(code), !.pc = "home"]
  ELSE IF w.pc = "restoring"
       THEN [w EXCEPT !.result = "false", !.me = Null, !.pc = "home"]
       ELSE w

\* _joinReject?.({code}); _joinReject = null
joinRejectCall(w, code) ==
  IF w.jrej THEN rejected([w EXCEPT !.jrej = FALSE], code) ELSE w

\* the promise of joinAsParticipant is resolved: the tail of joinSession or of
\* restoreSession
resolved(w, code) ==
  IF w.pc = "joining"
  THEN LET st2 == [w.st EXCEPT !.sessionId = code]
       IN [w EXCEPT !.st = st2, !.me = MeRecord(st2, code), !.result = "success", !.pc = "room"]
  ELSE IF w.pc = "restoring"
       THEN [w EXCEPT !.result = "true", !.pc = "room"]
       ELSE w

mergeSync(old, new) ==
  IF old = Null \/ old.id # new.id THEN new ELSE [new EXCEPT !.participants = old.participants]

replaceSync(old, new) == new

\* _onFacilitatorMessage; code is the argument of the pending joinSession
onFacilitatorMessage(w, code, msg) ==
  CASE msg.type = "state_sync" ->
         LET w1 == [w EXCEPT !.st.session = replaceSync(@, msg.session)]
         IN IF w1.jres THEN resolved([w1 EXCEPT !.jres = FALSE, !.jrej = FALSE], code) ELSE w1
    [] msg.type = "session_closed" -> onSessionClosed(w)
    [] msg.type = "error" ->
         [joinRejectCall(w, msg.code) EXCEPT !.jres = FALSE, !.jrej = FALSE]
    [] OTHER -> w

\* the address PEER_PREFIX + code exists when the facilitator's Peer is open under it
AddressBound(code) == peer.st = "open" /\ peer.code = code

\* joinAsParticipant: a new Peer, and its connection towards PEER_PREFIX + code
NewConn(t, code) ==
  [InitConn EXCEPT !.owner = t, !.target = code,
                   !.pst = IF AddressBound(code) THEN "linking" ELSE "dialing",
                   !.hst = IF AddressBound(code) THEN "pending" ELSE "none"]

joinValidationCodeFirst(code, name) ==
  IF code = NoCode THEN "CODE_REQUIRED" ELSE IF name = "" THEN "NAME_REQUIRED" ELSE "ok"

\* the two guards at the head of joinSession
joinValidation(code, name) ==
  IF name = "" THEN "NAME_REQUIRED" ELSE IF code = NoCode THEN "CODE_REQUIRED" ELSE "ok"

joinSessionStart(t, code, name) ==
  /\ pc[t] = "home"
  /\ IF joinValidation(code, name) # "ok"
     THEN /\ result' = [result EXCEPT ![t] = joinValidation(code, name)]
          /\ UNCHANGED <<state, pc, conns, tabCtl, nconn>>
     ELSE /\ nconn < MaxConns
          /\ nconn' = nconn + 1
          /\ state' = [state EXCEPT ![t].myId = genParticipantId(nconn + 1),
                                    ![t].myName = name,
                                    ![t].myRole = ROLE.PARTICIPANT]
          /\ conns' = [conns EXCEPT ![nconn + 1] = NewConn(t, code)]
          /\ tabPeer' = [tabPeer EXCEPT ![t] = nconn + 1]
          /\ hostConn' = [hostConn EXCEPT ![t] = nconn + 1]
          /\ joinResolve' = [joinResolve EXCEPT ![t] = TRUE]
          /\ joinReject' = [joinReject EXCEPT ![t] = TRUE]
          /\ pc' = [pc EXCEPT ![t] = "joining"]
          /\ result' = [result EXCEPT ![t] = "pending"]
  /\ UNCHANGED <<me, hubVars, facCtl>>

\* _peer 'error' with type peer-unavailable: nobody listens at the address
peerUnavailable(c) ==
  /\ conns[c].pst = "dialing"
  /\ LET t == conns[c].owner
         w == [Tab(t) EXCEPT !.conns[c].pst = "closed"]
     IN ApplyTab(t, joinRejectCall(w, "SESSION_NOT_FOUND"))
  /\ UNCHANGED <<hubVars, facCtl, nconn>>

\* any other 'error' of the Peer or of _hostConn while the join is pending
peerError(t) ==
  /\ pc[t] \in {"joining", "restoring"}
  /\ joinReject[t]
  /\ ApplyTab(t, joinRejectCall(Tab(t), "PEER_ERROR"))
  /\ UNCHANGED <<hubVars, facCtl, nconn>>

\* _hostConn 'open'
hostConnOpen(c) ==
  /\ conns[c].pst = "linking"
  /\ LET t == conns[c].owner
         join == [type |-> "participant_join", pid |-> state[t].myId, name |-> state[t].myName]
     IN conns' = sendUp([conns EXCEPT ![c].pst = "open"], c, join)
  /\ UNCHANGED <<state, perTab, hubVars, facCtl, tabCtl, nconn>>

\* _hostConn 'data' and 'close'
hostConnEvent(c) ==
  /\ conns[c].pst = "open"
  /\ conns[c].down # <<>>
  /\ LET t == conns[c].owner
         msg == Head(conns[c].down)
         w == [Tab(t) EXCEPT !.conns[c].down = Tail(@)]
         code == IF w.peer # 0 THEN conns[w.peer].target ELSE NoCode
     IN IF msg.type = "CLOSE"
        THEN ApplyTab(t, onSessionClosed([w EXCEPT !.conns[c].pst = "closed",
                                                   !.conns[c].down = <<>>]))
        ELSE ApplyTab(t, onFacilitatorMessage(w, code, msg))
  /\ UNCHANGED <<hubVars, facCtl, nconn>>

sendToFacilitator(w, data) ==
  IF w.hostConn # 0 /\ w.conns[w.hostConn].pst = "open"
  THEN [w EXCEPT !.conns = sendUp(@, w.hostConn, data)]
  ELSE w

castVote(t, value) ==
  /\ pc[t] = "room"
  /\ state[t].session # Null
  /\ state[t].myRole # ROLE.FACILITATOR
  /\ state[t].session.status = STATUS.VOTING
  /\ HasId(state[t].session.participants, state[t].myId)
  /\ hostConn[t] # 0 => Len(conns[hostConn[t]].up) < MaxQueue
  /\ LET w == [Tab(t) EXCEPT !.st.session.participants = SetVote(@, state[t].myId, value)]
     IN ApplyTab(t, sendToFacilitator(w, [type |-> "vote_cast", pid |-> state[t].myId,
                                          vote |-> value]))
  /\ UNCHANGED <<hubVars, facCtl, nconn>>

leaveSession(t) ==
  /\ pc[t] = "room"
  /\ state[t].session # Null
  /\ LET w1 == sendToFacilitator(Tab(t), [type |-> "participant_leave", pid |-> state[t].myId])
         w2 == disconnectWebRTC(w1)
     IN ApplyTab(t, [w2 EXCEPT !.me = Null, !.st.session = Null, !.st.sessionId = NoCode,
                               !.pc = "home"])
  /\ UNCHANGED <<hubVars, facCtl, nconn>>

\* the participant's page is reloaded: the script state is lost, sessionStorage stays
reloadParticipant(t) ==
  /\ pc[t] # "boot"
  /\ me[t] # Null
  /\ nconn < MaxConns
  /\ conns' = [c \in ConnIds |-> IF conns[c].owner = t THEN DropPartEnd(conns[c]) ELSE conns[c]]
  /\ state' = [state EXCEPT ![t] = InitState]
  /\ hostConn' = [hostConn EXCEPT ![t] = 0]
  /\ tabPeer' = [tabPeer EXCEPT ![t] = 0]
  /\ joinResolve' = [joinResolve EXCEPT ![t] = FALSE]
  /\ joinReject' = [joinReject EXCEPT ![t] = FALSE]
  /\ pc' = [pc EXCEPT ![t] = "boot"]
  /\ result' = [result EXCEPT ![t] = "none"]
  /\ UNCHANGED <<me, hubVars, facCtl, nconn>>

\* init() of app.js and restoreSession (participant): joinAsParticipant(me.sessionId)
restoreParticipant(t) ==
  /\ pc[t] = "boot"
  /\ me[t] # Null
  /\ nconn < MaxConns
  /\ nconn' = nconn + 1
  /\ LET m == me[t]
     IN /\ state' = [state EXCEPT ![t] = [myId |-> m.myId, myName |-> m.myName,
                                          myRole |-> m.myRole, sessionId |-> m.sessionId,
                                          session |-> Null]]
        /\ conns' = [conns EXCEPT ![nconn + 1] = NewConn(t, m.sessionId)]
  /\ tabPeer' = [tabPeer EXCEPT ![t] = nconn + 1]
  /\ hostConn' = [hostConn EXCEPT ![t] = nconn + 1]
  /\ joinResolve' = [joinResolve EXCEPT ![t] = TRUE]
  /\ joinReject' = [joinReject EXCEPT ![t] = TRUE]
  /\ pc' = [pc EXCEPT ![t] = "restoring"]
  /\ result' = [result EXCEPT ![t] = "pending"]
  /\ UNCHANGED <<me, hubVars, facCtl>>

(***************************************************************************)
(* A client that does not run session.js: the channel carries whatever is  *)
(* sent on it, so a joined peer can send intents that name any id it has   *)
(* seen in a snapshot.                                                     *)
(***************************************************************************)
KnownIds(t) ==
  IF state[t].session = Null THEN {}
  ELSE {state[t].session.participants[i].id : i \in 1..Len(state[t].session.participants)}

forgedVote(t, pid, value) ==
  /\ hostConn[t] # 0
  /\ conns[hostConn[t]].pst = "open"
  /\ Len(conns[hostConn[t]].up) < MaxQueue
  /\ pid \in KnownIds(t) \ {state[t].myId}
  /\ conns' = sendUp(conns, hostConn[t], [type |-> "vote_cast", pid |-> pid, vote |-> value])
  /\ UNCHANGED <<state, perTab, hubVars, facCtl, tabCtl, nconn>>

(***************************************************************************)
(* Hub events.                                                             *)
(***************************************************************************)
onConnOpenSilent(cs, c, session) == [cs EXCEPT ![c].hst = "open"]

\* the 'open' handler of an inbound connection
onConnOpen(cs, c, session) == sendTo([cs EXCEPT ![c].hst = "open"], c, StateSync(session))

\* conn 'open' of _onIncomingConnection
connOpen(c) ==
  /\ conns[c].hst = "pending"
  /\ Room
  /\ conns' = onConnOpen(conns, c, state[F].session)
  /\ UNCHANGED <<state, perTab, hubVars, facCtl, tabCtl, nconn>>

\* conn 'data' and 'close' of _onIncomingConnection
connEvent(c) ==
  /\ conns[c].hst = "open"
  /\ conns[c].up # <<>>
  /\ Room
  /\ LET msg == Head(conns[c].up)
         h == [Hub EXCEPT !.conns[c].up = Tail(@)]
     IN IF msg.type = "CLOSE"
        THEN ApplyHub(onParticipantDisconnect([h EXCEPT !.conns[c].hst = "closed",
                                                        !.conns[c].up = <<>>], c))
        ELSE ApplyHub(onParticipantMessage(h, c, msg))
  /\ UNCHANGED <<perTab, facCtl, tabCtl, nconn>>

\* conn 'error' of _onIncomingConnection
connError(c) ==
  /\ conns[c].hst = "open"
  /\ ~conns[c].herr
  /\ Room
  /\ ApplyHub(onParticipantDisconnect([Hub EXCEPT !.conns[c].herr = TRUE], c))
  /\ UNCHANGED <<perTab, facCtl, tabCtl, nconn>>

(***************************************************************************)
(* After closeSession.  The exported functions of session.js can still be  *)
(* called, and an event the browser had received on a channel before the   *)
(* facilitator closed it can still be handed to its handler.               *)
(***************************************************************************)
FacilitatorCalls == {"updateItem", "launchVote", "revealVotes", "newRound", "closeSession"}

closedCall(op, item) ==
  /\ pc[F] = "home"
  /\ peer.st = "destroyed"
  /\ ApplyHub(CASE op = "updateItem"  -> doUpdateItem(Hub, item)
                [] op = "launchVote"  -> doLaunchVote(Hub, item)
                [] op = "revealVotes" -> doRevealVotes(Hub)
                [] op = "newRound"    -> doNewRound(Hub)
                [] OTHER              -> doCloseSession(Hub, state[F].sessionId))
  /\ UNCHANGED <<perTab, facCtl, tabCtl, nconn>>

LateMsgs(c) ==
  {[type |-> "participant_join", pid |-> genParticipantId(c), name |-> "Al"],
   [type |-> "participant_leave", pid |-> genParticipantId(c)]}
    \cup {[type |-> "vote_cast", pid |-> genParticipantId(c), vote |-> v] : v \in VoteValues}

LateChannel(c) ==
  /\ peer.st = "destroyed"
  /\ conns[c].owner # 0
  /\ conns[c].hst = "closed"

\* conn 'data' after the close
lateIntent(c, msg) ==
  /\ LateChannel(c)
  /\ ApplyHub(onParticipantMessage(Hub, c, msg))
  /\ UNCHANGED <<perTab, facCtl, tabCtl, nconn>>

\* conn 'close' reported by the data channel after the close
lateClose(c) ==
  /\ LateChannel(c)
  /\ ApplyHub(onParticipantDisconnect(Hub, c))
  /\ UNCHANGED <<perTab, facCtl, tabCtl, nconn>>

\* what the facilitator can do
FacilitatorOps ==
  \/ \E item \in Items \cup {Undefined} : launchVote(item)
  \/ \E item \in Items : updateItem(item)
  \/ revealVotes
  \/ newRound
  \/ closeSession

\* what a participant can do, with well-formed inputs
ParticipantOps ==
  \/ \E t \in Tabs, code \in Codes, name \in Names \ {""} : joinSessionStart(t, code, name)
  \/ \E t \in Tabs, v \in VoteValues : castVote(t, v)
  \/ \E t \in Tabs : leaveSession(t)
  \/ \E t \in Tabs : reloadParticipant(t)
  \/ \E t \in Tabs : restoreParticipant(t)

\* what PeerJS delivers
Network ==
  \/ \E c \in ConnIds : peerUnavailable(c)
  \/ \E t \in Tabs : peerError(t)
  \/ \E c \in ConnIds : hostConnOpen(c)
  \/ \E c \in ConnIds : hostConnEvent(c)
  \/ \E c \in ConnIds : connOpen(c)
  \/ \E c \in ConnIds : connEvent(c)
  \/ \E c \in ConnIds : connError(c)

Next ==
  \/ \E name \in Names \ {""}, item \in Items : createSessionStart(name, item)
  \/ createSessionOpen
  \/ FacilitatorOps
  \/ ParticipantOps
  \/ Network
  \/ reloadFacilitator
  \/ restoreSessionStart
  \/ restoreSessionOpen

Spec == Init /\ [][Next]_vars

(***************************************************************************)
(* The facilitator alone: createSession with its failures and retries,     *)
(* reload and restoreSession with its failures and its single retry.       *)
(***************************************************************************)
NextCreate ==
  \/ \E name \in Names, item \in Items \cup {""} : createSessionStart(name, item)
  \/ createSessionOpen
  \/ \E code \in {"ID_TAKEN", "PEER_ERROR"} : createSessionError(code)
  \/ FacilitatorOps
  \/ reloadFacilitator
  \/ restoreSessionStart
  \/ restoreSessionOpen
  \/ \E code \in {"ID_TAKEN", "PEER_ERROR"} : restoreSessionError(code)
  \/ restoreSessionRetry
  \/ storageCleared

SpecCreate == Init /\ [][NextCreate]_vars

(***************************************************************************)
(* A session one seat short of full: the facilitator has just restored a   *)
(* persisted session in which MAX_PARTICIPANTS - 1 participants of other   *)
(* browsers are enrolled; the tabs of the model come on top of them.       *)
(***************************************************************************)
Enrolled == [k \in 1..(MAX_PARTICIPANTS - 1) |-> NewParticipant(200 + k, "Al")]

FullSession ==
  [NewSession("A3F7", FacId(1), "Al", "S1") EXCEPT !.participants = @ \o Enrolled]

InitFull ==
  /\ state = [t \in AllTabs |->
                IF t = F THEN [myId |-> FacId(1), myName |-> "Al", myRole |-> ROLE.FACILITATOR,
                               sessionId |-> "A3F7", session |-> FullSession]
                ELSE InitState]
  /\ pc = [t \in AllTabs |-> IF t = F THEN "room" ELSE "home"]
  /\ result = [t \in AllTabs |-> IF t = F THEN "true" ELSE "none"]
  /\ me = [t \in AllTabs |-> IF t = F THEN MeRecord(state[F], "A3F7") ELSE Null]
  /\ ls = [c \in Codes |-> IF c = "A3F7" THEN FullSession ELSE Null]
  /\ peer = [code |-> "A3F7", st |-> "open"]
  /\ attempt = NoAttempt
  /\ creates = MaxCreates
  /\ reloads = MaxReloads
  /\ connMap = <<>>
  /\ conns = [c \in ConnIds |-> InitConn]
  /\ hostConn = [t \in Tabs |-> 0]
  /\ joinResolve = [t \in Tabs |-> FALSE]
  /\ joinReject = [t \in Tabs |-> FALSE]
  /\ tabPeer = [t \in Tabs |-> 0]
  /\ nconn = 0

NextFull ==
  \/ FacilitatorOps
  \/ ParticipantOps
  \/ Network

SpecFull == InitFull /\ [][NextFull]_vars

(***************************************************************************)
(* One round of votes with two card values, so that a participant can     *)
(* change its vote.                                                        *)
(***************************************************************************)
TwoCards == {3, 5}

NextVote ==
  \/ \E name \in Names \ {""}, item \in Items : createSessionStart(name, item)
  \/ createSessionOpen
  \/ launchVote(Undefined)
  \/ \E t \in Tabs, code \in Codes, name \in Names \ {""} : joinSessionStart(t, code, name)
  \/ \E t \in Tabs, v \in TwoCards : castVote(t, v)
  \/ Network

SpecVote == Init /\ [][NextVote]_vars

(***************************************************************************)
(* Peers that send intents naming other ids than their own.                *)
(***************************************************************************)
NextForged ==
  \/ \E name \in Names \ {""}, item \in Items : createSessionStart(name, item)
  \/ createSessionOpen
  \/ launchVote(Undefined)
  \/ revealVotes
  \/ \E t \in Tabs, code \in Codes, name \in Names \ {""} : joinSessionStart(t, code, name)
  \/ Network
  \/ \E t \in Tabs : \E pid \in KnownIds(t), v \in VoteValues : forgedVote(t, pid, v)

SpecForged == Init /\ [][NextForged]_vars

(***************************************************************************)
(* Rounds over two items: the session is created on the first item, and    *)
(* updateItem and launchVote name either.                                  *)
(***************************************************************************)
TwoItems == {"S1", "S2"}

NextRounds ==
  \/ \E name \in Names \ {""}, item \in Items : createSessionStart(name, item)
  \/ createSessionOpen
  \/ \E item \in TwoItems : updateItem(item)
  \/ \E item \in TwoItems \cup {Undefined} : launchVote(item)
  \/ revealVotes
  \/ \E t \in Tabs, code \in Codes, name \in Names \ {""} : joinSessionStart(t, code, name)
  \/ \E t \in Tabs, v \in VoteValues : castVote(t, v)
  \/ Network

SpecRounds == Init /\ [][NextRounds]_vars

(***************************************************************************)
(* Broadcasts in which the send on one channel throws.                     *)
(***************************************************************************)
NextSendFails ==
  \/ \E name \in Names \ {""}, item \in Items : createSessionStart(name, item)
  \/ createSessionOpen
  \/ launchVote(Undefined)
  \/ \E t \in Tabs, code \in Codes, name \in Names \ {""} : joinSessionStart(t, code, name)
  \/ \E t \in Tabs, v \in VoteValues : castVote(t, v)
  \/ Network
  \/ \E c \in ConnIds : revealVotesSendFails(c)

SpecSendFails == Init /\ [][NextSendFails]_vars

(***************************************************************************)
(* The forms filled in badly: createSession and joinSession with empty     *)
(* names and codes, next to well-formed calls, joins, leaves and the       *)
(* events of the network.                                                  *)
(***************************************************************************)
NextInputs ==
  \/ \E name \in Names, item \in Items : createSessionStart(name, item)
  \/ createSessionOpen
  \/ \E t \in Tabs, code \in Codes \cup {NoCode}, name \in Names : joinSessionStart(t, code, name)
  \/ \E t \in Tabs : leaveSession(t)
  \/ Network

SpecInputs == Init /\ [][NextInputs]_vars

(***************************************************************************)
(* A participant about to restore: tab 1 joined the session as participant *)
(* RestoredId, the facilitator's page was reloaded and restored (the       *)
(* roster is kept, the channels are gone), and the page of tab 1 has just  *)
(* been reloaded with its identity record in sessionStorage.               *)
(***************************************************************************)
RestoredId == 19

RestoredSession ==
  [NewSession("A3F7", FacId(1), "Al", "S1") EXCEPT
     !.participants = Append(@, NewParticipant(RestoredId, "Al"))]

InitRestore ==
  /\ state = [t \in AllTabs |->
                IF t = F THEN [myId |-> FacId(1), myName |-> "Al", myRole |-> ROLE.FACILITATOR,
                               sessionId |-> "A3F7", session |-> RestoredSession]
                ELSE InitState]
  /\ pc = [t \in AllTabs |-> IF t = F THEN "room" ELSE IF t = 1 THEN "boot" ELSE "home"]
  /\ result = [t \in AllTabs |-> IF t = F THEN "true" ELSE "none"]
  /\ me = [t \in AllTabs |->
             IF t = F THEN MeRecord(state[F], "A3F7")
             ELSE IF t = 1 THEN [myId |-> RestoredId, myName |-> "Al",
                                 myRole |-> ROLE.PARTICIPANT, sessionId |-> "A3F7"]
             ELSE Null]
  /\ ls = [c \in Codes |-> IF c = "A3F7" THEN RestoredSession ELSE Null]
  /\ peer = [code |-> "A3F7", st |-> "open"]
  /\ attempt = NoAttempt
  /\ creates = MaxCreates
  /\ reloads = MaxReloads
  /\ connMap = <<>>
  /\ conns = [c \in ConnIds |-> InitConn]
  /\ hostConn = [t \in Tabs |-> 0]
  /\ joinResolve = [t \in Tabs |-> FALSE]
  /\ joinReject = [t \in Tabs |-> FALSE]
  /\ tabPeer = [t \in Tabs |-> 0]
  /\ nconn = 0

SpecRestore == InitRestore /\ [][NextFull]_vars

\* every event that is ready is eventually handled: the browsers' event loops
\* run, and a channel delivers what was sent on it
Delivery ==
  \A c \in ConnIds :
    /\ WF_vars(hostConnOpen(c))
    /\ WF_vars(connOpen(c))
    /\ SF_vars(connEvent(c))
    /\ SF_vars(hostConnEvent(c))

SpecRestoreLive == SpecRestore /\ Delivery

(***************************************************************************)
(* Rounds of votes with every ready event eventually handled.              *)
(***************************************************************************)
NextConverge ==
  \/ \E name \in Names \ {""}, item \in Items : createSessionStart(name, item)
  \/ createSessionOpen
  \/ launchVote(Undefined)
  \/ revealVotes
  \/ \E t \in Tabs, code \in Codes, name \in Names \ {""} : joinSessionStart(t, code, name)
  \/ \E t \in Tabs, v \in VoteValues : castVote(t, v)
  \/ Network

SpecConverge == Init /\ [][NextConverge]_vars /\ Delivery

(***************************************************************************)
(* Joins and participant restores while the facilitator may close the      *)
(* session, with every ready event eventually handled and the signalling   *)
(* server answering a dial to an address nobody holds.                     *)
(***************************************************************************)
NextJoinLive ==
  \/ \E name \in Names \ {""}, item \in Items : createSessionStart(name, item)
  \/ createSessionOpen
  \/ closeSession
  \/ \E t \in Tabs, code \in Codes, name \in Names \ {""} : joinSessionStart(t, code, name)
  \/ \E t \in Tabs : reloadParticipant(t)
  \/ \E t \in Tabs : restoreParticipant(t)
  \/ Network

Signalling == \A c \in ConnIds : WF_vars(peerUnavailable(c))

SpecJoinLive == Init /\ [][NextJoinLive]_vars /\ Delivery /\ Signalling

(***************************************************************************)
(* A round of votes, then the close of the session and what can still      *)
(* happen at the facilitator afterwards.                                   *)
(***************************************************************************)
NextLate ==
  \/ \E name \in Names \ {""}, item \in Items : createSessionStart(name, item)
  \/ createSessionOpen
  \/ launchVote(Undefined)
  \/ revealVotes
  \/ closeSession
  \/ \E t \in Tabs, code \in Codes, name \in Names \ {""} : joinSessionStart(t, code, name)
  \/ \E t \in Tabs, v \in VoteValues : castVote(t, v)
  \/ Network
  \/ \E op \in FacilitatorCalls, item \in Items : closedCall(op, item)
  \/ \E c \in ConnIds : \E msg \in LateMsgs(c) : lateIntent(c, msg)
  \/ \E c \in ConnIds : lateClose(c)

SpecLate == Init /\ [][NextLate]_vars

(***************************************************************************)
(* The localStorage variant (src/unnamed/part_004): a facilitator page and *)
(* participant pages of one browser, which share localStorage.  In this    *)
(* specification ls is that localStorage, with its keys votes, votingState *)
(* and participantId, and state[p] holds the globals of the script of page *)
(* p and the disabled attribute of its buttons.  The timer is abstract: a  *)
(* tick of setInterval finds the end time reached or not.                  *)
(***************************************************************************)
\* two of the seven CARD_VALUES
Cards == {"3", "5"}

NoCard == "null"

NoId == ""

\* initStorage, on an empty localStorage
InitStorage == [votes |-> <<>>, votingState |-> [started |-> FALSE], participantId |-> NoId]

\* getParticipantId: the id is generated once and kept in localStorage
getParticipantId(store) ==
  IF store.participantId = NoId THEN [store EXCEPT !.participantId = "P1"] ELSE store

hasVoted(store) ==
  \E i \in 1..Len(store.votes) : store.votes[i].participantId = store.participantId

\* a participant page after initParticipant: startTimerSync has set the interval
ParticipantPage(btn) == [selectedCard |-> NoCard, timerInterval |-> TRUE, voteBtnDisabled |-> btn]

\* the facilitator page after initFacilitator
FacilitatorPage == [timerInterval |-> TRUE, startBtnDisabled |-> FALSE, resetBtnDisabled |-> FALSE]

InitLocal ==
  /\ \E b \in BOOLEAN :
       state = [p \in AllTabs |-> IF p = F THEN FacilitatorPage ELSE ParticipantPage(b)]
  /\ ls = InitStorage
  /\ pc = [t \in AllTabs |-> "home"]
  /\ result = [t \in AllTabs |-> "none"]
  /\ me = [t \in AllTabs |-> Null]
  /\ peer = [code |-> NoCode, st |-> "none"]
  /\ attempt = NoAttempt
  /\ creates = 0
  /\ reloads = 0
  /\ connMap = <<>>
  /\ conns = [c \in ConnIds |-> InitConn]
  /\ hostConn = [t \in Tabs |-> 0]
  /\ joinResolve = [t \in Tabs |-> FALSE]
  /\ joinReject = [t \in Tabs |-> FALSE]
  /\ tabPeer = [t \in Tabs |-> 0]
  /\ nconn = 0

notLocal == <<pc, result, me, peer, attempt, creates, reloads, connMap, conns,
              hostConn, joinResolve, joinReject, tabPeer, nconn>>

selectCard(t, value) ==
  /\ IF ~ls.votingState.started
     THEN UNCHANGED <<state, ls>>
     ELSE LET store == getParticipantId(ls)
          IN /\ ls' = store
             /\ IF hasVoted(store)
                THEN UNCHANGED state
                ELSE state' = [state EXCEPT ![t].selectedCard = value,
                                            ![t].voteBtnDisabled = FALSE]
  /\ UNCHANGED notLocal

\* the click on voteBtn
submitVote(t) ==
  /\ ~state[t].voteBtnDisabled
  /\ IF state[t].selectedCard = NoCard
     THEN UNCHANGED <<state, ls>>
     ELSE LET store == getParticipantId(ls)
          IN IF hasVoted(store)
             THEN ls' = store /\ UNCHANGED state
             ELSE /\ ls' = [store EXCEPT !.votes =
                              Append(@, [participantId |-> store.participantId,
                                         value |-> state[t].selectedCard])]
                  /\ state' = [state EXCEPT ![t].voteBtnDisabled = TRUE]
  /\ UNCHANGED notLocal

\* the 1 s interval of initParticipant
updateParticipantView(t) ==
  /\ LET store == getParticipantId(ls)
     IN /\ ls' = store
        /\ IF hasVoted(store)
           THEN state' = [state EXCEPT ![t].voteBtnDisabled = TRUE]
           ELSE UNCHANGED state
  /\ UNCHANGED notLocal

\* the click on startBtn
startVoting ==
  /\ ~state[F].startBtnDisabled
  /\ ls' = [ls EXCEPT !.votes = <<>>, !.votingState = [started |-> TRUE]]
  /\ state' = [state EXCEPT ![F] = [timerInterval |-> TRUE, startBtnDisabled |-> TRUE,
                                     resetBtnDisabled |-> TRUE]]
  /\ UNCHANGED notLocal

\* the click on resetBtn
resetSession ==
  /\ ~state[F].resetBtnDisabled
  /\ ls' = [ls EXCEPT !.votes = <<>>, !.votingState = [started |-> FALSE]]
  /\ state' = [state EXCEPT ![F] = [timerInterval |-> FALSE, startBtnDisabled |-> FALSE,
                                     resetBtnDisabled |-> FALSE]]
  /\ UNCHANGED notLocal

onTimerEnd(store) == [store EXCEPT !.votingState.started = FALSE]

\* one tick of the interval of startTimerSync on page p
timerTick(p, reached) ==
  /\ state[p].timerInterval
  /\ IF ~ls.votingState.started
     THEN /\ state' = [state EXCEPT ![p].timerInterval = FALSE]
          /\ UNCHANGED ls
     ELSE IF reached
          THEN /\ ls' = onTimerEnd(ls)
               /\ state' = [state EXCEPT ![p] =
                              IF p = F THEN [@ EXCEPT !.timerInterval = FALSE,
                                                      !.resetBtnDisabled = FALSE]
                              ELSE [@ EXCEPT !.timerInterval = FALSE]]
          ELSE UNCHANGED <<state, ls>>
  /\ UNCHANGED notLocal

\* page p is loaded again: its script starts afresh
reloadPage(p) ==
  /\ \E b \in BOOLEAN :
       state' = [state EXCEPT ![p] = IF p = F THEN FacilitatorPage ELSE ParticipantPage(b)]
  /\ UNCHANGED ls
  /\ UNCHANGED notLocal

NextLocal ==
  \/ \E t \in Tabs, value \in Cards : selectCard(t, value)
  \/ \E t \in Tabs : submitVote(t)
  \/ \E t \in Tabs : updateParticipantView(t)
  \/ startVoting
  \/ resetSession
  \/ \E p \in AllTabs, reached \in BOOLEAN : timerTick(p, reached)
  \/ \E p \in AllTabs : reloadPage(p)

SpecLocal == InitLocal /\ [][NextLocal]_vars

(***************************************************************************)
(* Properties.                                                             *)
(***************************************************************************)
Sess == state[F].session

Roster == Sess.participants

Ids(ps) == {ps[i].id : i \in 1..Len(ps)}

VoteOf(ps, id) == ps[CHOOSE i \in 1..Len(ps) : ps[i].id = id].vote

\* the hub is about to process the message msg-typed head of connection c
HubHead(c, type) ==
  /\ conns[c].hst = "open"
  /\ conns[c].up # <<>>
  /\ Head(conns[c].up).type = type
  /\ Sess # Null

\* the hub processes a participant_join of an id not enrolled while
\* MAX_PARTICIPANTS participants are
FullJoin(c) ==
  /\ HubHead(c, "participant_join")
  /\ ~HasId(Roster, Head(conns[c].up).pid)
  /\ Len(NonFac(Roster)) = MAX_PARTICIPANTS
  /\ connEvent(c)

C2_Capacity == Sess # Null => Len(NonFac(Roster)) <= MAX_PARTICIPANTS

\* the session is full and a further join has been turned away
C2_Witness ==
  /\ Sess # Null
  /\ Len(NonFac(Roster)) = MAX_PARTICIPANTS
  /\ \E c \in ConnIds :
       /\ conns[c].hst = "closed"
       /\ \E k \in 1..Len(conns[c].down) : conns[c].down[k] = ErrorMsg("SESSION_FULL")

\* C3: when the roster holds MAX_PARTICIPANTS participants and a participant
\* not in it runs joinSession with the session's code, the step in which its
\* tab takes the hub's SESSION_FULL answer ends joinSession with the error
\* SESSION_FULL, and the roster still has MAX_PARTICIPANTS + 1 entries.
C3_FullJoinResult ==
  [][\A c \in ConnIds :
       /\ FullJoin(c) => Len(Sess'.participants) = MAX_PARTICIPANTS + 1
       /\ (hostConnEvent(c) /\ Head(conns[c].down) = ErrorMsg("SESSION_FULL"))
            => result'[conns[c].owner] = "SESSION_FULL"]_vars

\* C4: a participant_join for an id not in a full roster is answered on its
\* own channel by error{SESSION_FULL} followed by the close of that channel;
\* the session and its saved copy do not change and no other channel gets
\* anything.
C4_HubRejection ==
  [][\A c \in ConnIds :
       FullJoin(c) =>
         /\ Sess' = Sess
         /\ ls' = ls
         /\ conns'[c].hst = "closed"
         /\ conns[c].pst # "closed" =>
              conns'[c].down = conns[c].down \o <<ErrorMsg("SESSION_FULL"), CloseMark>>
         /\ ~MapHas(connMap', c)
         /\ \A d \in ConnIds \ {c} : conns'[d] = conns[d]]_vars

\* a join was turned away while the channel of an enrolled participant is open
C4_Witness ==
  /\ Sess # Null
  /\ Len(NonFac(Roster)) = MAX_PARTICIPANTS
  /\ \E c, d \in ConnIds :
       /\ c # d
       /\ conns[c].hst = "closed"
       /\ conns[c].down # <<>>
       /\ conns[c].down[Len(conns[c].down)] = CloseMark
       /\ \E k \in 1..Len(conns[c].down) : conns[c].down[k] = ErrorMsg("SESSION_FULL")
       /\ conns[d].hst = "open"
       /\ MapHas(connMap, d)
       /\ HasId(Roster, connMap[MapGet(connMap, d)].appId)

\* C5: a tab that takes a state_sync ends with exactly the session the
\* message carries, whatever its mirror was; and every state_sync the hub
\* puts on a channel while it keeps its session carries the session as it is
\* at the end of that step.
Appended(c) == SubSeq(conns'[c].down, Len(conns[c].down) + 1, Len(conns'[c].down))

C5_SnapshotConvergence ==
  [][\A c \in ConnIds :
       /\ (hostConnEvent(c) /\ Head(conns[c].down).type = "state_sync")
            => state'[conns[c].owner].session = Head(conns[c].down).session
       /\ (Sess' # Null /\ Len(conns'[c].down) > Len(conns[c].down))
            => \A k \in 1..Len(Appended(c)) :
                 Appended(c)[k].type = "state_sync" => Appended(c)[k].session = Sess']_vars

\* a tab voted locally, then took the snapshot of the revealed round, in which
\* its vote is absent, while its vote_cast is still on its way
C5_Witness ==
  \E t \in Tabs :
    /\ hostConn[t] # 0
    /\ conns[hostConn[t]].pst = "open"
    /\ conns[hostConn[t]].up # <<>>
    /\ Head(conns[hostConn[t]].up).type = "vote_cast"
    /\ Sess # Null
    /\ Sess.status = STATUS.REVEALED
    /\ state[t].session = Sess
    /\ HasId(Roster, state[t].myId)
    /\ VoteOf(Roster, state[t].myId) = NoVote

\* C6: a vote_cast processed while the status is not VOTING changes nothing
\* of the session; and from one REVEALED state to the next the vote of every
\* participant that stays in the roster is the same.
C6_VoteGating ==
  [][/\ \A c \in ConnIds :
          (HubHead(c, "vote_cast") /\ Sess.status # STATUS.VOTING /\ connEvent(c))
            => (Sess' = Sess /\ ls' = ls)
     /\ (/\ Sess # Null /\ Sess' # Null
         /\ Sess.status = STATUS.REVEALED /\ Sess'.status = STATUS.REVEALED)
          => \A id \in Ids(Roster) \cap Ids(Sess'.participants) :
               VoteOf(Sess'.participants, id) = VoteOf(Roster, id)]_vars

\* the round is revealed, a tab's late vote_cast has been processed and its
\* vote is still absent from the facilitator's roster
C6_Witness ==
  \E t \in Tabs :
    /\ hostConn[t] # 0
    /\ conns[hostConn[t]].pst = "open"
    /\ conns[hostConn[t]].hst = "open"
    /\ conns[hostConn[t]].up = <<>>
    /\ Sess # Null
    /\ Sess.status = STATUS.REVEALED
    /\ state[t].session # Null
    /\ state[t].session.status = STATUS.VOTING
    /\ HasId(state[t].session.participants, state[t].myId)
    /\ VoteOf(state[t].session.participants, state[t].myId) # NoVote
    /\ HasId(Roster, state[t].myId)
    /\ VoteOf(Roster, state[t].myId) = NoVote

\* C7: at the end of every launchVote and of every newRound, every vote of
\* the facilitator's roster is null.
C7_VoteReset ==
  [][((\E item \in Items \cup {Undefined} : launchVote(item)) \/ newRound)
       => (Sess' # Null /\ \A i \in 1..Len(Sess'.participants) :
                             Sess'.participants[i].vote = NoVote)]_vars

\* a new round has begun with every vote null while a tab still shows the
\* revealed round with a vote in it
C7_Witness ==
  \E t \in Tabs :
    /\ Sess # Null
    /\ Sess.status = STATUS.WAITING
    /\ \A i \in 1..Len(Roster) : Roster[i].vote = NoVote
    /\ state[t].session # Null
    /\ state[t].session.id = Sess.id
    /\ state[t].session.status = STATUS.REVEALED
    /\ \E i \in 1..Len(state[t].session.participants) :
         state[t].session.participants[i].vote # NoVote
    /\ hostConn[t] # 0
    /\ conns[hostConn[t]].down # <<>>
    /\ Head(conns[hostConn[t]].down) = StateSync(Sess)

\* C8: a participant_join for an id that is already in the roster leaves the
\* roster as it is (entries, votes, order); and no two entries of the
\* facilitator's roster ever share an id.
C8_IdempotentRejoin ==
  /\ [](Sess # Null =>
          \A i, j \in 1..Len(Roster) : Roster[i].id = Roster[j].id => i = j)
  /\ [][\A c \in ConnIds :
          (/\ HubHead(c, "participant_join")
           /\ HasId(Roster, Head(conns[c].up).pid)
           /\ connEvent(c))
          => (Sess' # Null /\ Sess'.participants = Roster)]_vars

\* the same id is registered on two channels and enrolled once: its second
\* join was processed while the first channel was still registered
C8_Witness ==
  /\ Sess # Null
  /\ \E i, j \in 1..Len(connMap) :
       /\ i # j
       /\ connMap[i].appId = connMap[j].appId
       /\ Cardinality({k \in 1..Len(Roster) : Roster[k].id = connMap[i].appId}) = 1

\* C9: a close or an error of a channel registered for an enrolled
\* participant removes that participant, forgets the channel and puts the
\* snapshot of the smaller roster on every other registered open channel; a
\* close or an error of a channel that is no longer registered (second event
\* of the same channel, or close after participant_leave) changes neither the
\* session nor any other channel.
Disconnect(c) ==
  \/ (conns[c].hst = "open" /\ conns[c].up # <<>> /\ Head(conns[c].up) = CloseMark
      /\ connEvent(c))
  \/ connError(c)

C9_DisconnectCleanup ==
  [][\A c \in ConnIds :
       (Sess # Null /\ Disconnect(c)) =>
         IF MapHas(connMap, c) /\ HasId(Roster, connMap[MapGet(connMap, c)].appId)
         THEN /\ Sess'.participants = FilterOut(Roster, connMap[MapGet(connMap, c)].appId)
              /\ Len(Sess'.participants) = Len(Roster) - 1
              /\ ~MapHas(connMap', c)
              /\ \A d \in ConnIds \ {c} :
                   conns'[d].down =
                     IF MapHas(connMap, d) /\ conns[d].hst = "open" /\ conns[d].pst # "closed"
                     THEN Append(conns[d].down, StateSync(Sess'))
                     ELSE conns[d].down
         ELSE /\ Sess' = Sess
              /\ \A d \in ConnIds \ {c} : conns'[d] = conns[d]]_vars

\* a channel failed, its participant is gone from the roster, and the channel
\* of the participant that remains holds the snapshot of the smaller roster
C9_Witness ==
  /\ Sess # Null
  /\ Len(Roster) = 2
  /\ \E c, d \in ConnIds :
       /\ c # d
       /\ conns[c].herr
       /\ conns[c].owner # conns[d].owner
       /\ ~MapHas(connMap, c)
       /\ ~HasId(Roster, state[conns[c].owner].myId)
       /\ conns[d].hst = "open"
       /\ MapHas(connMap, d)
       /\ HasId(Roster, connMap[MapGet(connMap, d)].appId)
       /\ conns[d].down = <<StateSync(Sess)>>

\* C10: createSession never makes more than MAX_CREATE_ATTEMPTS attempts; when
\* an attempt succeeds, session.id, state.sessionId and the bound address are
\* the code of that attempt and the result is success; when createSession
\* gives up, the result is failure and the state of session.js, localStorage
\* and the identity record are what they were, unset if nothing was created
\* before.
C10_CollisionRetry ==
  /\ [](attempt.i < MAX_CREATE_ATTEMPTS)
  /\ []((creates = 0 /\ reloads = 0) =>
          (Sess = Null /\ me[F] = Null /\ \A c \in Codes : ls[c] = Null))
  /\ [][/\ (pc[F] = "creating" /\ pc'[F] = "room") =>
             /\ result'[F] = "true"
             /\ Sess'.id = attempt.sessionId
             /\ state'[F].sessionId = attempt.sessionId
             /\ peer' = [code |-> attempt.sessionId, st |-> "open"]
             /\ ls'[attempt.sessionId] = Sess'
             /\ me'[F].sessionId = attempt.sessionId
        /\ (pc[F] = "creating" /\ pc'[F] = "home") =>
             /\ result'[F] = "false"
             /\ state' = state /\ ls' = ls /\ me' = me]_vars

\* the fifth attempt succeeded, with a code other than the one of an earlier use
C10_Witness ==
  /\ pc[F] = "room"
  /\ result[F] = "true"
  /\ attempt.i = MAX_CREATE_ATTEMPTS - 1
  /\ Sess # Null
  /\ Sess.id = peer.code
  /\ peer.st = "open"

\* the step in which joinSession of tab t returns success
JoinSuccess(t) == result[t] = "pending" /\ pc[t] = "joining" /\ result'[t] = "success"

\* C11: joinSession returns success only in the step in which its tab takes
\* a state_sync on the channel this joinSession opened, and the mirror is
\* then the session carried by that message.
C11_JoinOrdering ==
  [][\A t \in Tabs :
       JoinSuccess(t) =>
         /\ tabPeer[t] # 0
         /\ hostConnEvent(tabPeer[t])
         /\ Head(conns[tabPeer[t]].down).type = "state_sync"
         /\ state'[t].session = Head(conns[tabPeer[t]].down).session]_vars

\* the step in which joinSession of tab t returns a failure
JoinFailure(t) == pc[t] = "joining" /\ pc'[t] = "home" /\ result'[t] # "success"

\* C12: a joinSession that fails because nobody listens at the address
\* returns SESSION_NOT_FOUND, one that fails on another transport error
\* returns PEER_ERROR; a failing joinSession leaves the identity record and
\* state.sessionId as they were.
C12_JoinFailureMapping ==
  [][\A t \in Tabs :
       JoinFailure(t) =>
         /\ me'[t] = me[t]
         /\ state'[t].sessionId = state[t].sessionId
         /\ result'[t] \in {"SESSION_NOT_FOUND", "PEER_ERROR", "SESSION_FULL"}
         /\ (\E c \in ConnIds : conns[c].owner = t /\ peerUnavailable(c))
              => result'[t] = "SESSION_NOT_FOUND"
         /\ peerError(t) => result'[t] = "PEER_ERROR"
         /\ result'[t] = "PEER_ERROR" => peerError(t)]_vars

\* one tab was told that the session does not exist, the other that the
\* transport failed; neither has an identity record or a session code
C12_Witness ==
  \E t, u \in Tabs :
    /\ pc[t] = "home" /\ result[t] = "SESSION_NOT_FOUND"
    /\ pc[u] = "home" /\ result[u] = "PEER_ERROR"
    /\ me[t] = Null /\ me[u] = Null
    /\ state[t].sessionId = NoCode /\ state[u].sessionId = NoCode
    /\ state[t].myId # 0 /\ state[u].myId # 0

\* C13: joinSession with an empty name returns NAME_REQUIRED, with a name
\* and an empty code CODE_REQUIRED, createSession with an empty name returns
\* false; such a call creates no Peer and no channel and changes nothing of
\* the state of session.js and of the two storages.
OnlyResult == UNCHANGED <<state, pc, me, ls, peer, attempt, creates, connMap, conns,
                          hostConn, joinResolve, joinReject, tabPeer, nconn, reloads>>

C13_ValidationErrors ==
  [][/\ \A t \in Tabs, code \in Codes \cup {NoCode} :
          joinSessionStart(t, code, "") => (result'[t] = "NAME_REQUIRED" /\ OnlyResult)
     /\ \A t \in Tabs, name \in Names \ {""} :
          joinSessionStart(t, NoCode, name) => (result'[t] = "CODE_REQUIRED" /\ OnlyResult)
     /\ \A item \in Items :
          createSessionStart("", item) => (result'[F] = "false" /\ OnlyResult)
     /\ \A t \in Tabs :
          (result'[t] # result[t] /\ result'[t] \in {"NAME_REQUIRED", "CODE_REQUIRED"})
            => OnlyResult]_vars

\* each of the three calls was refused before anything had been created
C13_Witness ==
  /\ result[F] = "false" /\ peer.st = "none" /\ creates = 0
  /\ nconn = 0
  /\ \E t, u \in Tabs : result[t] = "NAME_REQUIRED" /\ result[u] = "CODE_REQUIRED"
  /\ \A t \in AllTabs : state[t] = InitState /\ me[t] = Null

\* the facilitator's entry of a roster
FacEntry(ps) == ps[CHOOSE i \in 1..Len(ps) : ps[i].isFacilitator]

\* C14: a vote_cast that names the facilitator's id changes nothing of the
\* session, castVote does nothing in the facilitator's tab, and the
\* facilitator's roster entry never has a vote.
C14_FacilitatorNeverVotes ==
  /\ []((Sess # Null /\ \E i \in 1..Len(Roster) : Roster[i].isFacilitator)
          => FacEntry(Roster).vote = NoVote)
  /\ [][\A c \in ConnIds :
          (/\ HubHead(c, "vote_cast")
           /\ Head(conns[c].up).pid = Sess.facilitatorId
           /\ connEvent(c))
          => Sess' = Sess]_vars

\* C15: a vote_cast processed while the status is VOTING for an enrolled
\* id sets the vote of that entry to the value sent and changes nothing
\* else: same entries in the same order, every other vote, status and
\* currentItem as before; for an id that is not enrolled the session does not
\* change.
VoteStep(c) == HubHead(c, "vote_cast") /\ Sess.status = STATUS.VOTING /\ connEvent(c)

C15_SuccessfulVote ==
  [][\A c \in ConnIds :
       VoteStep(c) =>
         LET msg == Head(conns[c].up)
         IN IF HasId(Roster, msg.pid)
            THEN /\ Sess' # Null
                 /\ Len(Sess'.participants) = Len(Roster)
                 /\ \A i \in 1..Len(Roster) :
                      Sess'.participants[i] =
                        IF Roster[i].id = msg.pid
                        THEN [id |-> Roster[i].id, name |-> Roster[i].name,
                              vote |-> msg.vote, isFacilitator |-> Roster[i].isFacilitator]
                        ELSE Roster[i]
                 /\ Sess'.status = Sess.status
                 /\ Sess'.currentItem = Sess.currentItem
                 /\ Sess'.id = Sess.id
                 /\ Sess'.facilitatorId = Sess.facilitatorId
            ELSE Sess' = Sess]_vars

\* a participant voted 3, then 5: the facilitator holds 5 while the other
\* tab still shows the 3 of the first vote
C15_Witness ==
  \E t, u \in Tabs :
    /\ t # u
    /\ Sess # Null
    /\ Sess.status = STATUS.VOTING
    /\ HasId(Roster, state[t].myId)
    /\ VoteOf(Roster, state[t].myId) = 5
    /\ state[u].session # Null
    /\ HasId(state[u].session.participants, state[t].myId)
    /\ VoteOf(state[u].session.participants, state[t].myId) = 3
    /\ Len(Roster) = 3

\* C16: restoreSession of the facilitator binds the code of its identity
\* record and no other; without a saved snapshot it fails at once, binding
\* nothing; ID_TAKEN on the first bind leads to the backoff and one second
\* bind of the same code; any other error of the first bind, and any error of
\* the second, ends the restore with failure.  A reload of the page ends the
\* restore under way; the next one starts afresh.
Restoring == pc[F] \in {"restoring", "backoff", "restoring2"}

C16_RestoreRetry ==
  /\ [](Restoring => (peer.code = me[F].sessionId /\ state[F].sessionId = me[F].sessionId))
  /\ [][~reloadFacilitator =>
        /\ (pc[F] = "boot" /\ pc'[F] # "boot") =>
             IF ls[me[F].sessionId] = Null
             THEN pc'[F] = "home" /\ result'[F] = "false" /\ peer' = peer
             ELSE pc'[F] = "restoring" /\ peer' = NewPeer(me[F].sessionId)
        /\ (pc[F] = "restoring" /\ restoreSessionError("ID_TAKEN")) =>
             (pc'[F] = "backoff" /\ result'[F] = "pending")
        /\ (pc[F] = "restoring" /\ restoreSessionError("PEER_ERROR")) =>
             (pc'[F] = "home" /\ result'[F] = "false")
        /\ (pc[F] = "backoff" /\ pc'[F] # "backoff") =>
             (pc'[F] = "restoring2" /\ peer' = NewPeer(me[F].sessionId))
        /\ (pc[F] = "restoring2" /\ pc'[F] # "restoring2") =>
             \/ pc'[F] = "room" /\ result'[F] = "true" /\ peer'.code = peer.code
             \/ pc'[F] = "home" /\ result'[F] = "false"]_vars

\* the second bind of the persisted code is under way
C16_Witness ==
  /\ pc[F] = "restoring2"
  /\ peer = NewPeer(me[F].sessionId)
  /\ state[F].session # Null
  /\ state[F].session.id = me[F].sessionId

RegisteredAtSend(c) == MapHas(connMap, c) \/ MapHas(connMap', c)

SessionChanged == Sess # Null /\ Sess' # Null /\ Sess' # Sess

C18_MutationImpliesBroadcast ==
  [][SessionChanged =>
       \A c \in ConnIds :
         conns'[c].down =
           IF RegisteredAtSend(c) /\ conns'[c].hst = "open" /\ conns[c].pst # "closed"
           THEN Append(conns[c].down, StateSync(Sess'))
           ELSE conns[c].down]_vars

\* both channels are registered and open and hold the snapshot that
\* revealVotes has just broadcast
C18_Witness ==
  /\ Sess # Null
  /\ Sess.status = STATUS.REVEALED
  /\ Len(connMap) = 2
  /\ \A c \in ConnIds : /\ MapHas(connMap, c)
                        /\ conns[c].hst = "open"
                        /\ conns[c].down = <<StateSync(Sess)>>

\* C19: an inbound channel that is not yet open at the hub is not in the
\* hub's map, receives nothing from the hub and has none of its messages
\* consumed; the step that opens it appends one state_sync carrying the whole
\* session the facilitator holds at that moment and changes nothing else at
\* the hub.
Pending(c) == conns[c].hst = "pending"

C19_OnboardingSnapshot ==
  /\ [](\A c \in ConnIds : Pending(c) => (~MapHas(connMap, c) /\ conns[c].down = <<>>))
  /\ [][\A c \in ConnIds : Pending(c) =>
          /\ conns'[c].hst = "pending" =>
               /\ conns'[c].down = conns[c].down
               /\ \/ conns'[c].up = conns[c].up
                  \/ /\ conns'[c].up # <<>>
                     /\ SubSeq(conns'[c].up, 1, Len(conns'[c].up) - 1) = conns[c].up
          /\ conns'[c].hst = "open" =>
               /\ connOpen(c)
               /\ Sess # Null
               /\ conns'[c].down = IF conns[c].pst = "closed" THEN <<>> ELSE <<StateSync(Sess)>>
               /\ conns'[c].up = conns[c].up
               /\ Sess' = Sess /\ connMap' = connMap /\ ls' = ls
               /\ \A d \in ConnIds \ {c} : conns'[d] = conns[d]]_vars

\* the channel has just opened at the hub: it holds the snapshot, with the
\* other participant in the roster, and its join is still waiting
C19_Witness ==
  \E c \in ConnIds :
    /\ conns[c].hst = "open"
    /\ ~MapHas(connMap, c)
    /\ Sess # Null
    /\ Len(Roster) = 2
    /\ conns[c].down = <<StateSync(Sess)>>
    /\ conns[c].up # <<>>
    /\ Head(conns[c].up).type = "participant_join"

\* C20: a channel in the hub's map is open at the hub; closeSession sends
\* session_closed and then the close on every such channel as the last two
\* things it will ever receive, leaves no channel of the hub open or pending,
\* empties the map, deletes the snapshot stored under the code and the
\* identity record, and unsets session and sessionId.
SessionClosed == [type |-> "session_closed"]

ClosedLast(q) ==
  /\ Len(q) >= 2
  /\ q[Len(q) - 1] = SessionClosed
  /\ q[Len(q)] = CloseMark

C20_Close ==
  /\ [](\A c \in ConnIds : MapHas(connMap, c) => conns[c].hst = "open")
  /\ [][closeSession =>
          /\ \A c \in ConnIds :
               /\ conns'[c].hst \notin {"open", "pending"}
               /\ MapHas(connMap, c) =>
                    /\ conns'[c].hst = "closed"
                    /\ IF conns[c].pst = "closed"
                       THEN conns'[c].down = conns[c].down
                       ELSE ClosedLast(conns'[c].down)
               /\ ~MapHas(connMap, c) =>
                    \A i \in DOMAIN conns'[c].down : conns'[c].down[i] # SessionClosed
          /\ connMap' = <<>>
          /\ ls'[state[F].sessionId] = Null
          /\ me'[F] = Null
          /\ Sess' = Null
          /\ state'[F].sessionId = NoCode]_vars

\* the session is closed and both channels, registered until then, end with
\* session_closed and the close
C20_Witness ==
  /\ pc[F] = "home"
  /\ Sess = Null /\ state[F].sessionId = NoCode /\ me[F] = Null
  /\ connMap = <<>>
  /\ \A code \in Codes : ls[code] = Null
  /\ \A c \in ConnIds : conns[c].hst = "closed" /\ ClosedLast(conns[c].down)

\* C21: leaveSession of an enrolled participant deletes its identity record,
\* unsets its session and sessionId and leaves no channel of the tab held;
\* and, messages and closes being delivered, once a participant has left the
\* facilitator's roster is eventually, and from then on, without its id.
PIds == {RestoredId} \cup {genParticipantId(c) : c \in ConnIds}

HasLeft(t, p) ==
  /\ pc[t] = "home"
  /\ state[t].myId = p
  /\ state[t].session = Null
  /\ me[t] = Null
  /\ result[t] \in {"success", "true"}

NotEnrolled(p) == Sess = Null \/ ~HasId(Roster, p)

Held(c) == conns[c].pst \in {"dialing", "linking", "open"}

C21_Leave ==
  /\ [][\A t \in Tabs : (leaveSession(t) /\ ~NotEnrolled(state[t].myId)) =>
          /\ me'[t] = Null
          /\ state'[t].session = Null /\ state'[t].sessionId = NoCode
          /\ hostConn'[t] = 0
          /\ \A c \in ConnIds : conns[c].owner = t => ~Held(c)']_vars
  /\ \A t \in Tabs, p \in PIds : HasLeft(t, p) ~> [] NotEnrolled(p)

\* C22: whenever the facilitator's session has status WAITING, every
\* participant of its roster other than the facilitator has a null vote.
C22_WaitingVotesNull ==
  (Sess # Null /\ Sess.status = STATUS.WAITING) =>
    \A i \in 1..Len(Roster) : ~Roster[i].isFacilitator => Roster[i].vote = NoVote

\* the restored facilitator has begun a new round and a participant has
\* joined on a new channel during it, while a tab still shows the revealed
\* round with a vote in it
C22_Witness ==
  /\ Sess # Null
  /\ Sess.status = STATUS.WAITING
  /\ reloads = 1
  /\ \E c \in ConnIds : MapHas(connMap, c) /\ HasId(Roster, connMap[MapGet(connMap, c)].appId)
  /\ \E t \in Tabs :
       /\ state[t].session # Null
       /\ state[t].session.status = STATUS.REVEALED
       /\ \E i \in 1..Len(state[t].session.participants) :
            state[t].session.participants[i].vote # NoVote

\* C23: when the send on one channel throws during the broadcast of
\* revealVotes, every other registered open channel still gets the
\* state_sync, the session is the revealed one with the item and every
\* entry that remains as they were, and the failing channel is out of the
\* hub's map with its participant out of the roster.
AppIdOf(c) == connMap[MapGet(connMap, c)].appId

C23_BroadcastSendFailure ==
  [][\A bad \in ConnIds : revealVotesSendFails(bad) =>
       /\ \A c \in ConnIds \ {bad} :
            (MapHas(connMap, c) /\ conns[c].hst = "open" /\ conns[c].pst # "closed")
              => conns'[c].down = Append(conns[c].down, StateSync(Sess'))
       /\ Sess'.status = STATUS.REVEALED
       /\ Sess'.currentItem = Sess.currentItem
       /\ \A i \in 1..Len(Sess'.participants) :
            \E j \in 1..Len(Roster) : Roster[j] = Sess'.participants[i]
       /\ ~MapHas(connMap', bad)
       /\ ~HasId(Sess'.participants, AppIdOf(bad))]_vars

\* C24: updateItem(item), in whatever status, sets currentItem to item and
\* leaves status, roster and votes as they were.
C24_UpdateItemFrame ==
  [][\A item \in TwoItems : updateItem(item) =>
       (Sess' # Null /\ Sess' = [Sess EXCEPT !.currentItem = item])]_vars

\* the item was changed after the reveal: a tab shows the revealed round on
\* the first item with a vote in it, and the snapshot it is about to take is
\* the same but for the item
C24_Witness ==
  \E t \in Tabs :
    /\ Sess # Null
    /\ Sess.status = STATUS.REVEALED
    /\ Sess.currentItem = "S2"
    /\ state[t].session # Null
    /\ state[t].session = [Sess EXCEPT !.currentItem = "S1"]
    /\ \E i \in 1..Len(Roster) : Roster[i].vote # NoVote
    /\ hostConn[t] # 0
    /\ conns[hostConn[t]].down = <<StateSync(Sess)>>

\* C25: revealVotes, in whatever status, sets status to REVEALED and leaves
\* currentItem, the roster and every vote as they were.
C25_RevealVotesFrame ==
  [][revealVotes => (Sess' # Null /\ Sess' = [Sess EXCEPT !.status = STATUS.REVEALED])]_vars

\* the votes were revealed: a tab shows the vote under way with its own vote
\* in it, and the snapshot it is about to take is the same but for the status
C25_Witness ==
  \E t \in Tabs :
    /\ Sess # Null
    /\ Sess.status = STATUS.REVEALED
    /\ state[t].session # Null
    /\ state[t].session = [Sess EXCEPT !.status = STATUS.VOTING]
    /\ HasId(Roster, state[t].myId)
    /\ VoteOf(Roster, state[t].myId) # NoVote
    /\ hostConn[t] # 0
    /\ conns[hostConn[t]].down = <<StateSync(Sess)>>

\* C26: launchVote(item), in whatever status, sets status to VOTING, sets
\* currentItem to item if one is given and leaves it otherwise, and keeps
\* the entries of the roster and their order.
SameMembers(ps, qs) ==
  /\ Len(ps) = Len(qs)
  /\ \A i \in 1..Len(ps) : /\ ps[i].id = qs[i].id
                           /\ ps[i].name = qs[i].name
                           /\ ps[i].isFacilitator = qs[i].isFacilitator

C26_LaunchVote ==
  [][\A item \in TwoItems \cup {Undefined} : launchVote(item) =>
       /\ Sess' # Null
       /\ Sess'.status = STATUS.VOTING
       /\ Sess'.currentItem = IF item # Undefined THEN item ELSE Sess.currentItem
       /\ Sess'.id = Sess.id
       /\ SameMembers(Sess'.participants, Roster)]_vars

\* a vote was launched on the first item from the revealed round on the
\* second: a tab still shows that round, and is about to take the new one
C26_Witness ==
  \E t \in Tabs :
    /\ Sess # Null
    /\ Sess.status = STATUS.VOTING
    /\ Sess.currentItem = "S1"
    /\ Len(Roster) >= 2
    /\ state[t].session # Null
    /\ state[t].session.status = STATUS.REVEALED
    /\ state[t].session.currentItem = "S2"
    /\ SameMembers(state[t].session.participants, Roster)
    /\ hostConn[t] # 0
    /\ conns[hostConn[t]].down = <<StateSync(Sess)>>

\* C27: once createSession, joinSession or restoreSession has returned
\* failure, the facilitator holds no peer that is bound or binding, and a
\* participant's tab holds no peer, no host connection, no channel that is
\* open or being set up, and no armed resolver of a join.
Failures == {"false", "SESSION_NOT_FOUND", "SESSION_FULL", "PEER_ERROR"}

Released(t) ==
  /\ hostConn[t] = 0
  /\ tabPeer[t] = 0
  /\ ~joinResolve[t] /\ ~joinReject[t]
  /\ \A c \in ConnIds : conns[c].owner = t => ~Held(c)

C27_CancellationReleases ==
  /\ (pc[F] = "home" /\ result[F] = "false") => peer.st \notin {"connecting", "open"}
  /\ \A t \in Tabs : (pc[t] = "home" /\ result[t] \in Failures) => Released(t)

\* C28: taking session_closed on its host connection puts the tab on the
\* home screen; an intent is only ever sent from the room, on the host
\* connection of the tab; and a tab leaves the home screen only with a new
\* host connection or none, never the old one: so no vote is accepted and no
\* intent sent on a channel once session_closed was taken on it.
Intents == {"vote_cast", "participant_leave"}

IntentSent(c) ==
  /\ Len(conns'[c].up) > Len(conns[c].up)
  /\ \E i \in (Len(conns[c].up) + 1)..Len(conns'[c].up) : conns'[c].up[i].type \in Intents

ChannelUp(t) ==
  /\ pc[t] = "room"
  /\ hostConn[t] # 0
  /\ conns[hostConn[t]].pst = "open"
  /\ conns[hostConn[t]].hst = "open"

C29_EventualConvergence ==
  \A t \in Tabs :
    (<>[][Sess' = Sess]_vars /\ <>[]ChannelUp(t)) => <>[](state[t].session = Sess)

\* C30: when the close of a channel reaches the hub after its participant
\* has re-joined with the same id on another channel, which is registered
\* and open at both ends, the participant is still in the roster.
Rejoined(c) ==
  \E d \in ConnIds \ {c} :
    /\ MapHas(connMap, d)
    /\ AppIdOf(d) = AppIdOf(c)
    /\ conns[d].hst = "open"
    /\ conns[d].pst = "open"

C30_ReconnectKeepsParticipant ==
  [][\A c \in ConnIds :
       (connEvent(c) /\ Head(conns[c].up) = CloseMark /\ MapHas(connMap, c) /\ Rejoined(c))
         => HasId(Sess'.participants, AppIdOf(c))]_vars

\* C31: in the step in which joinSession of a tab returns success, the
\* tab's mirror holds a roster with an entry of the tab's own id.
C31_JoinedMeansEnrolled ==
  [][\A t \in Tabs :
       JoinSuccess(t) =>
         /\ state'[t].session # Null
         /\ HasId(state'[t].session.participants, state'[t].myId)]_vars

\* C32: a vote_cast or participant_leave that the hub processes on a channel
\* leaves every roster entry as it was, except the entry of the id under
\* which that channel is registered.
C32_IntentAuthorisation ==
  [][\A c \in ConnIds :
       ((HubHead(c, "vote_cast") \/ HubHead(c, "participant_leave")) /\ connEvent(c)) =>
         \A i \in 1..Len(Roster) :
           (~MapHas(connMap, c) \/ Roster[i].id # AppIdOf(c)) =>
             \E j \in 1..Len(Sess'.participants) : Sess'.participants[j] = Roster[i]]_vars

\* C33: while the facilitator is in the room, every roster entry other than
\* the facilitator's has its id registered for some channel of the hub's map.
C33_RosterConnected ==
  (pc[F] = "room" /\ Sess # Null) =>
    \A i \in 1..Len(Roster) :
      ~Roster[i].isFacilitator =>
        \E c \in ConnIds : MapHas(connMap, c) /\ AppIdOf(c) = Roster[i].id

\* C34: a vote_cast that reaches the hub in a round in which nobody has
\* voted yet, from a tab whose mirror shows that round without a vote of its
\* own, was cast before the tab took the snapshot of the launch (the only
\* channel there ever was is the tab's, so nothing else has overwritten the
\* vote the tab set in its mirror when it cast it): it is not recorded.
StaleVote(c) ==
  LET t == conns[c].owner
      pid == Head(conns[c].up).pid
  IN /\ nconn = 1
     /\ MapHas(connMap, c)
     /\ AppIdOf(c) = pid
     /\ HasId(Roster, pid)
     /\ \A i \in 1..Len(Roster) : Roster[i].vote = NoVote
     /\ state[t].session = Sess

C34_NoStaleVote ==
  [][\A c \in ConnIds :
       (VoteStep(c) /\ StaleVote(c)) =>
         VoteOf(Sess'.participants, Head(conns[c].up).pid) = NoVote]_vars

\* C35: every joinSession call and every participant restoreSession eventually
\* returns, with success or with a failure: a tab that waits for the promise of
\* joinAsParticipant eventually stops waiting, also when the channel to the
\* facilitator closes before the first state_sync
Awaiting(t) == pc[t] \in {"joining", "restoring"}

C35_JoinTerminates == \A t \in Tabs : Awaiting(t) ~> ~Awaiting(t)

\* C36: onSessionClosed runs in a tab only if the facilitator executed
\* closeSession: a channel event that makes a tab run it (the session_closed
\* message, or the close of the channel) is handled only after closeSession
\* has destroyed the facilitator's Peer
Signalled(c) ==
  /\ conns[c].down # <<>>
  /\ Head(conns[c].down).type \in {"session_closed", "CLOSE"}
  /\ hostConnEvent(c)

C36_ClosedSignalOnlyOnClose ==
  [][\A c \in ConnIds : Signalled(c) => peer.st = "destroyed"]_vars

\* C37: over one channel a tab applies the facilitator's states in the order
\* the session went through them.  A tab that takes a state_sync takes the
\* oldest message of its channel, ends with the session it carries and
\* removes exactly that message; a channel only loses its oldest message,
\* gains messages behind the ones it holds, or is emptied when the tab's end
\* closes; a snapshot put on a channel is the session at the end of the step,
\* or, in the step that closes the session, the session with part of the
\* roster already removed; and no snapshot is queued behind the announcement
\* of the close or behind the close.
IsSync(m) == m.type = "state_sync"

Kept(c, k) ==
  /\ Len(conns'[c].down) >= Len(conns[c].down) - k
  /\ SubSeq(conns'[c].down, 1, Len(conns[c].down) - k) = SubSeq(conns[c].down, k + 1, Len(conns[c].down))

Fifo(c) ==
  \/ conns'[c].down = <<>>
  \/ Kept(c, 0)
  \/ conns[c].down # <<>> /\ Kept(c, 1)

SyncsFirst(q) ==
  \A i \in 1..Len(q) : \A j \in 1..Len(q) : (IsSync(q[j]) /\ ~IsSync(q[i])) => j < i

Passed(s) ==
  /\ [s EXCEPT !.participants = Roster] = Sess
  /\ Ids(s.participants) \subseteq Ids(Roster)

NoSend == \A d \in ConnIds : conns'[d].down = conns[d].down

RejectedVote(c) ==
  /\ HubHead(c, "vote_cast")
  /\ Sess.status # STATUS.VOTING \/ ~HasId(Roster, Head(conns[c].up).pid)
  /\ connEvent(c)

C38_RejectedIntentsSilent ==
  [][\A c \in ConnIds :
       /\ RejectedVote(c) => (NoSend /\ ls' = ls /\ Sess' = Sess)
       /\ \A msg \in LateMsgs(c) :
            (Sess = Null /\ lateIntent(c, msg)) =>
              (NoSend /\ ls' = ls /\ Sess' = Sess /\ connMap' = connMap)]_vars

\* the facilitator has revealed, and the vote a tab cast on its snapshot of
\* the open vote is the next message the hub handles: the tab has since taken
\* the snapshot of the reveal, and the persisted snapshot is the session
C38_Witness ==
  \E c \in ConnIds :
    /\ HubHead(c, "vote_cast")
    /\ Room
    /\ Sess.status = STATUS.REVEALED
    /\ MapHas(connMap, c)
    /\ HasId(Roster, Head(conns[c].up).pid)
    /\ state[conns[c].owner].session = Sess
    /\ ls[Sess.id] = Sess

\* C39: once closeSession has run, the facilitator holds no session and no
\* registered channel; updateItem, launchVote, revealVotes, newRound and
\* closeSession called then change nothing, and neither does an intent or a
\* channel close that is still handed to the hub: no state changes, nothing is
\* persisted, no message is sent.
Closed == peer.st = "destroyed"

C39_ClosedSessionInert ==
  /\ [](Closed => (Sess = Null /\ connMap = <<>> /\ \A code \in Codes : ls[code] = Null))
  /\ [][/\ \A op \in FacilitatorCalls, item \in Items :
            closedCall(op, item) => UNCHANGED vars
        /\ \A c \in ConnIds :
            /\ \A msg \in LateMsgs(c) : lateIntent(c, msg) => UNCHANGED vars
            /\ lateClose(c) => UNCHANGED vars]_vars

\* the session is closed and a tab that was in it has not yet seen its
\* channel close
C39_Witness ==
  /\ Closed
  /\ pc[F] = "home"
  /\ state[F].session = Null
  /\ \E c \in ConnIds :
       /\ LateChannel(c)
       /\ conns[c].pst = "open"
       /\ pc[conns[c].owner] = "room"
       /\ conns[c].down # <<>>

\* C40: in the localStorage variant a vote is appended to the stored list
\* only while votingState.started is true, so that a card selected during the
\* round is not submitted after the timer has ended; and the list holds at
\* most one vote per participant id.
C40_VotesOnlyWhileOpen ==
  /\ [](\A i \in 1..Len(ls.votes) : \A j \in 1..Len(ls.votes) :
         ls.votes[i].participantId = ls.votes[j].participantId => i = j)
  /\ [][Len(ls'.votes) > Len(ls.votes) => ls.votingState.started]_vars


====
